---- MODULE Spec2Model ----
(***************************************************************************)
(* The function code emitter of the Wasm backend                           *)
(* (compiler/gen_wasm/src/wasm_module/code_builder.rs): the CodeBuilder,   *)
(* its symbol-tracking stack machine, the deferred insertions and the      *)
(* serializer that splices them and rewrites relocation offsets.           *)
(***************************************************************************)
EXTENDS Integers, Sequences, FiniteSets, TLC

(***************************************************************************)
(* Bounds of the model                                                     *)
(***************************************************************************)
\* instruction bytes the driver may emit before build_fn_header
MaxCodeLen == 7
\* the same, for straight-line functions
MaxFlatLen == 7
\* relocations recorded by insert_memory_relocation
MaxMemRelocs == 1
\* the same, for functions with branches
MaxCtlLen == 6
\* the same, for functions built with or without overflow checks
MaxBuildLen == 6
\* the same, for functions of constants and calls
MaxCallLen == 14
\* locals of a function, where every list of them is tried
MaxLocals == 6
\* the same as MaxCodeLen, for functions whose stack is compared
MaxMatchLen == 6
\* the same, for functions serialized twice
MaxTwiceLen == 5
\* the same, for functions serialized with or without their header
MaxRelocLen == 5
\* the same, for functions whose recorded offsets are followed
MaxOffsetsLen == 6
\* the same, for functions of nested blocks
MaxBlocksLen == 7
\* the same, for functions of constants and any instruction method
MaxMethodsLen == 9
\* instruction methods of any kind called in one function
MaxMethodCalls == 1

(***************************************************************************)
(* Opcodes and value types (Wasm binary format)                            *)
(***************************************************************************)
UNREACHABLE == 0
BLOCK == 2
LOOP == 3
IF_OP == 4
ELSE_OP == 5
END == 11
BR == 12
BRIF == 13
RETURN == 15
CALL == 16
DROP == 26
GETLOCAL == 32
SETLOCAL == 33
TEELOCAL == 34
GETGLOBAL == 35
SETGLOBAL == 36
I32CONST == 65
I32EQZ == 69
I32ADD == 106
I32SUB == 107

I32 == 127
I64 == 126

\* BlockType::as_byte
NoResult == 64

STACK_POINTER_GLOBAL_ID == 0
FRAME_ALIGNMENT_BYTES == 16

(***************************************************************************)
(* Symbols and the driver's inputs                                         *)
(***************************************************************************)
WASM_TMP == 0
Symbols == {1, 2}
LocalIds == {1, 200}
BlockTypes == {NoResult, I32}
ConstVals == {7}
BranchLevels == {0, 1}
\* the symbols verify_stack_match is asked about
SymbolLists == UNION {[1..n -> {0, 1, 2}] : n \in 0..2}
\* the functions the driver calls: function_index, symbol_index, n_args and
\* has_return_val
Callees == {<<0, 3, 0, FALSE>>, <<1, 0, 1, TRUE>>, <<128, 1, 0, TRUE>>,
            <<2147483647, 2, 1, FALSE>>}
\* the arguments of an instruction method, each method taking those of its
\* signature: align and offset, a local or global id or branch level, a
\* block type, or a constant (a float by the halves of its bit pattern)
MethodArgs ==
    {[align |-> 0, offset |-> 0, immediate |-> 1, block_type |-> NoResult,
      x |-> 7, bits |-> <<0, 0>>],
     [align |-> 3, offset |-> 200, immediate |-> 200, block_type |-> I32,
      x |-> -65, bits |-> <<1072693248, 1065353216>>]}
\* what the buffer may hold before serialize_with_relocs is called
Prefixes == {<<255>>}
\* build_fn_header's local_types, frame_size and frame_pointer
HeaderArgs == {<< << >>, 0, [tag |-> "None"]>>,
               << <<I32, I32, I64>>, 20, [tag |-> "Some", v |-> 0]>>}

\* i32 and i64 locals in turn
Alternating(n) == [i \in 1..n |-> IF i % 2 = 1 THEN I32 ELSE I64]

\* local_types: every short list, and lists of 128 and more batches or locals
LocalTypeLists ==
    UNION {[1..n -> {I32, I64}] : n \in 0..MaxLocals}
        \cup {Alternating(127), Alternating(128), Alternating(129),
              [i \in 1..130 |-> I64]}

(***************************************************************************)
(* Sequences                                                               *)
(***************************************************************************)
Last(s) == s[Len(s)]

RemoveAt(s, i) == SubSeq(s, 1, i - 1) \o SubSeq(s, i + 1, Len(s))

\* slice s[from..to] with 0-based, end-exclusive Rust indices
Slice(s, from, to) == SubSeq(s, from + 1, to)

\* Iterator::position: 1-based index of the first element equal to x, 0 if none
Position(s, x) ==
    IF \E i \in 1..Len(s) : s[i] = x
    THEN CHOOSE i \in 1..Len(s) : s[i] = x /\ \A j \in 1..(i - 1) : s[j] # x
    ELSE 0

(***************************************************************************)
(* LEB128                                                                  *)
(***************************************************************************)
RECURSIVE encode_u32(_)
encode_u32(v) ==
    IF v < 128 THEN <<v>>
    ELSE <<(v % 128) + 128>> \o encode_u32(v \div 128)

RECURSIVE encode_i32(_)
encode_i32(v) ==
    LET byte == v % 128
        rest == (v - byte) \div 128
    IN IF (rest = 0 /\ byte < 64) \/ (rest = -1 /\ byte >= 64)
       THEN <<byte>>
       ELSE <<byte + 128>> \o encode_i32(rest)

encode_padded_u32(v) ==
    [i \in 1..5 |->
        IF i < 5 THEN ((v \div (128 ^ (i - 1))) % 128) + 128
        ELSE (v \div (128 ^ 4)) % 128]

RECURSIVE decode_u32(_)
decode_u32(bytes) ==
    IF bytes = << >> THEN 0
    ELSE IF bytes[1] < 128 THEN bytes[1]
    ELSE (bytes[1] - 128) + 128 * decode_u32(Tail(bytes))

\* signed LEB128, as encode_i32
encode_i64(v) == encode_i32(v)

\* the four bytes of a 32-bit pattern, least significant first
le_bytes(bits) == [i \in 1..4 |-> (bits \div (256 ^ (i - 1))) % 256]

\* a float is written as its bits, little endian
encode_f32(bits) == le_bytes(bits)

\* bits: the high and the low half of the 64-bit pattern
encode_f64(bits) == le_bytes(bits[2]) \o le_bytes(bits[1])

round_up_to_alignment(unaligned, alignment_bytes) ==
    IF unaligned % alignment_bytes = 0 THEN unaligned
    ELSE unaligned + alignment_bytes - (unaligned % alignment_bytes)

(***************************************************************************)
(* State: the CodeBuilder's fields, the driver's per-symbol VmSymbolState, *)
(* the module assembler's buffer and relocation list, and in `observed`    *)
(* what a call that leaves the builder alone was given or gave back, or    *)
(* the instruction method the driver called through CallMethod            *)
(***************************************************************************)
VARIABLES code, insert_bytes, insertions, preamble, inner_length,
          vm_block_stack, relocations,
          sym_state, phase, aborted, overflow_checks,
          buffer, final_relocs, reloc_base_offset, observed

vars == <<code, insert_bytes, insertions, preamble, inner_length,
          vm_block_stack, relocations,
          sym_state, phase, aborted, overflow_checks,
          buffer, final_relocs, reloc_base_offset, observed>>

builder_vars == <<code, insert_bytes, insertions, preamble, inner_length,
                  vm_block_stack, relocations>>

\* the CodeBuilder as one value
CB == [code |-> code, insert_bytes |-> insert_bytes, insertions |-> insertions,
       preamble |-> preamble, inner_length |-> inner_length,
       vm_block_stack |-> vm_block_stack, relocations |-> relocations]

\* the CodeBuilder at construction
SetInit(cb) ==
    /\ code = cb.code
    /\ insert_bytes = cb.insert_bytes
    /\ insertions = cb.insertions
    /\ preamble = cb.preamble
    /\ inner_length = cb.inner_length
    /\ vm_block_stack = cb.vm_block_stack
    /\ relocations = cb.relocations

\* the CodeBuilder after the step
SetCB(cb) ==
    /\ code' = cb.code
    /\ insert_bytes' = cb.insert_bytes
    /\ insertions' = cb.insertions
    /\ preamble' = cb.preamble
    /\ inner_length' = cb.inner_length
    /\ vm_block_stack' = cb.vm_block_stack
    /\ relocations' = cb.relocations

\* VmSymbolState, and the absent state of a symbol promoted to a local
NotYetPushed == [tag |-> "NotYetPushed"]
Pushed(p) == [tag |-> "Pushed", pushed_at |-> p]
Popped(p) == [tag |-> "Popped", pushed_at |-> p]
None == [tag |-> "None"]
Some(x) == [tag |-> "Some", v |-> x]

VmBlock(opcode, has_result) ==
    [opcode |-> opcode, value_stack |-> << >>, has_result |-> has_result]

Insertion(at, start, end) == [at |-> at, start |-> start, end |-> end]

\* new with a root block that has no result
new_without_result ==
    [code |-> << >>, insert_bytes |-> << >>, insertions |-> << >>,
     preamble |-> << >>, inner_length |-> << >>,
     vm_block_stack |-> <<[opcode |-> BLOCK, value_stack |-> << >>,
                           has_result |-> FALSE]>>,
     relocations |-> << >>]

new ==
    [code |-> << >>, insert_bytes |-> << >>, insertions |-> << >>,
     preamble |-> << >>, inner_length |-> << >>,
     vm_block_stack |-> <<[opcode |-> BLOCK, value_stack |-> << >>,
                           has_result |-> TRUE]>>,
     relocations |-> << >>]

(***************************************************************************)
(* Symbols                                                                 *)
(***************************************************************************)
current_stack(cb) == Last(cb.vm_block_stack).value_stack

\* set_top_symbol panics on an empty value_stack (last_mut().unwrap())
set_top_symbol_panics(cb) == current_stack(cb) = << >>

\* set_top_symbol pushing the symbol above the value it names
set_top_symbol_push(cb, sym) ==
    LET top == Len(cb.vm_block_stack)
    IN [cb |-> [cb EXCEPT !.vm_block_stack[top].value_stack = Append(@, sym)],
        ret |-> Pushed(Len(cb.code))]

set_top_symbol(cb, sym) ==
    LET top == Len(cb.vm_block_stack)
        depth == Len(cb.vm_block_stack[top].value_stack)
        pushed_at == Len(cb.code)
    IN [cb |-> [cb EXCEPT !.vm_block_stack[top].value_stack[depth] = sym],
        ret |-> Pushed(pushed_at)]

\* verify_stack_match comparing with the bottom of the stack
verify_stack_match_bottom(cb, symbols) ==
    LET n_symbols == Len(symbols)
        stack_depth == Len(current_stack(cb))
    IN IF n_symbols > stack_depth THEN FALSE
       ELSE \A i \in 0..(n_symbols - 1) :
                current_stack(cb)[i + 1] = symbols[i + 1]

verify_stack_match(cb, symbols) ==
    LET n_symbols == Len(symbols)
        stack_depth == Len(current_stack(cb))
    IN IF n_symbols > stack_depth THEN FALSE
       ELSE LET offset == stack_depth - n_symbols
            IN \A i \in 0..(n_symbols - 1) :
                   current_stack(cb)[offset + i + 1] = symbols[i + 1]

\* add_insertion moving the relocations recorded behind the insertion, as
\* an insertion written into code at once would
add_insertion_shifting(cb, insert_at, opcode, immediate) ==
    LET start == Len(cb.insert_bytes)
        bytes == cb.insert_bytes \o <<opcode>> \o encode_u32(immediate)
    IN [cb EXCEPT !.insert_bytes = bytes,
                  !.insertions = Append(@, Insertion(insert_at, start, Len(bytes))),
                  !.relocations =
                      [k \in 1..Len(@) |->
                          IF @[k].offset >= insert_at
                          THEN [@[k] EXCEPT !.offset = @ + (Len(bytes) - start)]
                          ELSE @[k]]]

\* add_insertion taking the end of the insertion one byte too far
add_insertion_wide(cb, insert_at, opcode, immediate) ==
    LET start == Len(cb.insert_bytes)
        bytes == cb.insert_bytes \o <<opcode>> \o encode_u32(immediate)
    IN [cb EXCEPT !.insert_bytes = bytes,
                  !.insertions = Append(@, Insertion(insert_at, start, Len(bytes) + 1))]

add_insertion(cb, insert_at, opcode, immediate) ==
    LET start == Len(cb.insert_bytes)
        bytes == cb.insert_bytes \o <<opcode>> \o encode_u32(immediate)
    IN [cb EXCEPT !.insert_bytes = bytes,
                  !.insertions = Append(@, Insertion(insert_at, start, Len(bytes)))]

(***************************************************************************)
(* Instruction helper methods                                              *)
(***************************************************************************)
\* current_stack.len() - pops overflows: a panic with overflow checks
inst_base_panics(cb, pops) ==
    overflow_checks /\ pops > Len(current_stack(cb))

\* without overflow checks the subtraction wraps and truncate() is a no-op
inst_base(cb, opcode, pops, push) ==
    LET top == Len(cb.vm_block_stack)
        stack == cb.vm_block_stack[top].value_stack
        new_len == IF pops > Len(stack) THEN Len(stack) ELSE Len(stack) - pops
        truncated == SubSeq(stack, 1, new_len)
        pushed == IF push THEN Append(truncated, WASM_TMP) ELSE truncated
    IN [cb EXCEPT !.vm_block_stack[top].value_stack = pushed,
                  !.code = Append(@, opcode)]

inst(cb, opcode, pops, push) == inst_base(cb, opcode, pops, push)

inst_block(cb, opcode, pops, block_type) ==
    LET b == inst_base(cb, opcode, pops, FALSE)
    IN [b EXCEPT !.code = Append(@, block_type),
                 !.vm_block_stack = Append(@, VmBlock(opcode, block_type # NoResult))]

inst_imm32(cb, opcode, pops, push, immediate) ==
    LET b == inst_base(cb, opcode, pops, push)
    IN [b EXCEPT !.code = @ \o encode_u32(immediate)]

inst_mem(cb, opcode, pops, push, align, offset) ==
    LET b == inst_base(cb, opcode, pops, push)
    IN [b EXCEPT !.code = Append(@, align) \o encode_u32(offset)]

\* insert_memory_relocation recording the place behind the opcode of the
\* instruction to come
insert_memory_relocation_next(cb, symbol_index) ==
    [cb EXCEPT !.relocations =
        Append(@, [type_id |-> "MemoryAddrLeb", offset |-> Len(cb.code) + 1,
                   symbol_index |-> symbol_index])]

\* insert_memory_relocation putting the relocation before the recorded ones
insert_memory_relocation_first(cb, symbol_index) ==
    [cb EXCEPT !.relocations =
        <<[type_id |-> "MemoryAddrLeb", offset |-> Len(cb.code),
           symbol_index |-> symbol_index]>> \o @]

insert_memory_relocation(cb, symbol_index) ==
    [cb EXCEPT !.relocations =
        Append(@, [type_id |-> "MemoryAddrLeb", offset |-> Len(cb.code),
                   symbol_index |-> symbol_index])]

(***************************************************************************)
(* Instruction methods                                                     *)
(***************************************************************************)
unreachable_(cb) == inst(cb, UNREACHABLE, 0, FALSE)

block(cb, ty) == inst_block(cb, BLOCK, 0, ty)

loop_(cb, ty) == inst_block(cb, LOOP, 0, ty)

if_(cb, ty) == inst_block(cb, IF_OP, 1, ty)

\* else_ keeping what the then branch left on the stack
else_keeping(cb) == inst(cb, ELSE_OP, 0, FALSE)

else_(cb) ==
    LET top == Len(cb.vm_block_stack)
        cleared == [cb EXCEPT !.vm_block_stack[top].value_stack = << >>]
    IN inst(cleared, ELSE_OP, 0, FALSE)

\* end panics when the ended block has a result but an empty value_stack
\* (last().unwrap()), or when it was the root block (current_stack_mut())
end_panics(cb) ==
    LET ended_block == Last(cb.vm_block_stack)
    IN ended_block.has_result
       /\ (ended_block.value_stack = << >> \/ Len(cb.vm_block_stack) = 1)

\* end handing on the first entry of the ended block
end_first(cb) ==
    LET b == inst_base(cb, END, 0, FALSE)
        n == Len(b.vm_block_stack)
        ended_block == b.vm_block_stack[n]
        popped == SubSeq(b.vm_block_stack, 1, n - 1)
    IN IF ended_block.has_result
       THEN [b EXCEPT !.vm_block_stack =
                [popped EXCEPT ![n - 1].value_stack =
                    Append(@, ended_block.value_stack[1])]]
       ELSE [b EXCEPT !.vm_block_stack = popped]

\* end handing on the result and leaving the ended block where it is
end_without_pop(cb) ==
    LET b == inst_base(cb, END, 0, FALSE)
        n == Len(b.vm_block_stack)
        ended_block == b.vm_block_stack[n]
    IN IF ended_block.has_result
       THEN [b EXCEPT !.vm_block_stack[n - 1].value_stack =
                Append(@, Last(ended_block.value_stack))]
       ELSE b

end(cb) ==
    LET b == inst_base(cb, END, 0, FALSE)
        n == Len(b.vm_block_stack)
        ended_block == b.vm_block_stack[n]
        popped == SubSeq(b.vm_block_stack, 1, n - 1)
    IN IF ended_block.has_result
       THEN [b EXCEPT !.vm_block_stack =
                [popped EXCEPT ![n - 1].value_stack =
                    Append(@, Last(ended_block.value_stack))]]
       ELSE [b EXCEPT !.vm_block_stack = popped]

br(cb, levels) == inst_imm32(cb, BR, 0, FALSE, levels)

\* only the condition is popped: the stack is that of the branch not taken
br_if(cb, levels) == inst_imm32(cb, BRIF, 1, FALSE, levels)

return_(cb) == inst(cb, RETURN, 0, FALSE)

\* call whose relocation points at the opcode
call_at_opcode(cb, function_index, symbol_index, n_args, has_return_val) ==
    LET offset == Len(cb.code)
        b == inst_base(cb, CALL, n_args, has_return_val)
    IN [b EXCEPT !.code = @ \o encode_padded_u32(function_index),
                 !.relocations =
                     Append(@, [type_id |-> "FunctionIndexLeb", offset |-> offset,
                                symbol_index |-> symbol_index])]

call(cb, function_index, symbol_index, n_args, has_return_val) ==
    LET b == inst_base(cb, CALL, n_args, has_return_val)
        offset == Len(b.code)
    IN [b EXCEPT !.code = @ \o encode_padded_u32(function_index),
                 !.relocations =
                     Append(@, [type_id |-> "FunctionIndexLeb", offset |-> offset,
                                symbol_index |-> symbol_index])]

drop_(cb) == inst(cb, DROP, 1, FALSE)

get_local(cb, id) == inst_imm32(cb, GETLOCAL, 0, TRUE, id)

set_local(cb, id) == inst_imm32(cb, SETLOCAL, 1, FALSE, id)

\* tee_local declared as popping its operand and pushing nothing
tee_local_pops(cb, id) == inst_imm32(cb, TEELOCAL, 1, FALSE, id)

\* net effect on the stack: none
tee_local(cb, id) == inst_imm32(cb, TEELOCAL, 0, FALSE, id)

set_global(cb, id) == inst_imm32(cb, SETGLOBAL, 1, FALSE, id)

i32_const(cb, x) ==
    LET b == inst_base(cb, I32CONST, 0, TRUE)
    IN [b EXCEPT !.code = @ \o encode_i32(x)]

i32_eqz(cb) == inst(cb, I32EQZ, 1, TRUE)

i32_add(cb) == inst(cb, I32ADD, 2, TRUE)

(***************************************************************************)
(* load_symbol                                                             *)
(***************************************************************************)
\* on_top looking at the first entry of the stack, not the last
on_top_first(cb, symbol) ==
    /\ current_stack(cb) # << >>
    /\ current_stack(cb)[1] = symbol

\* the symbol is already on top of the current block's stack
on_top(cb, symbol) ==
    /\ current_stack(cb) # << >>
    /\ Last(current_stack(cb)) = symbol

\* every block's value_stack loses its first entry equal to symbol
remove_symbol(blocks, symbol) ==
    [i \in 1..Len(blocks) |->
        LET found_index == Position(blocks[i].value_stack, symbol)
        IN IF found_index # 0
           THEN [blocks[i] EXCEPT !.value_stack = RemoveAt(@, found_index)]
           ELSE blocks[i]]

found_symbol(blocks, symbol) ==
    \E i \in 1..Len(blocks) : Position(blocks[i].value_stack, symbol) # 0

\* save_opcode with local.tee on both branches
save_opcode_tee(found) == TEELOCAL

\* save_opcode with local.set on both branches
save_opcode_set(found) == SETLOCAL

\* local.set where the value was still on a stack, local.tee where it was
\* popped implicitly
save_opcode(found) == IF found THEN SETLOCAL ELSE TEELOCAL

\* reuse_opcode with local.set, which takes the value from its first use
reuse_opcode_set == SETLOCAL

\* the opcode inserted at the push site of a symbol used a second time
reuse_opcode == TEELOCAL

\* recover handing on the state set_top_symbol returns
recover_pushed(cb, symbol, next_local_id) ==
    LET r == set_top_symbol(get_local(cb, next_local_id), symbol)
    IN [cb |-> r.cb, ret |-> Some(r.ret)]

\* recover the value from the local at the current position
recover(cb, symbol, next_local_id) ==
    [cb |-> set_top_symbol(get_local(cb, next_local_id), symbol).cb,
     ret |-> None]

load_symbol_panics(vm_state) == vm_state.tag = "NotYetPushed"

load_symbol(cb, symbol, vm_state, next_local_id) ==
    IF vm_state.tag = "Pushed"
    THEN IF on_top(cb, symbol)
         THEN [cb |-> cb, ret |-> Some(Popped(vm_state.pushed_at))]
         ELSE LET found == found_symbol(cb.vm_block_stack, symbol)
                  removed == [cb EXCEPT !.vm_block_stack = remove_symbol(@, symbol)]
                  inserted == add_insertion(removed, vm_state.pushed_at,
                                            save_opcode(found), next_local_id)
              IN recover(inserted, symbol, next_local_id)
    ELSE recover(add_insertion(cb, vm_state.pushed_at, reuse_opcode, next_local_id),
                 symbol, next_local_id)

(***************************************************************************)
(* The instruction methods: name, opcode, pops, push, and the helper that   *)
(* emits them                                                              *)
(***************************************************************************)
\* the bytes of the opcodes (Wasm binary format)
OpCodes ==
    <<<<"UNREACHABLE", 0>>, <<"NOP", 1>>, <<"BLOCK", 2>>, <<"LOOP", 3>>,
      <<"IF", 4>>, <<"BR", 12>>, <<"BRIF", 13>>, <<"RETURN", 15>>,
      <<"DROP", 26>>, <<"SELECT", 27>>, <<"GETLOCAL", 32>>,
      <<"SETLOCAL", 33>>, <<"TEELOCAL", 34>>, <<"GETGLOBAL", 35>>,
      <<"SETGLOBAL", 36>>, <<"I32LOAD", 40>>, <<"I64LOAD", 41>>,
      <<"F32LOAD", 42>>, <<"F64LOAD", 43>>, <<"I32LOAD8S", 44>>,
      <<"I32LOAD8U", 45>>, <<"I32LOAD16S", 46>>, <<"I32LOAD16U", 47>>,
      <<"I64LOAD8S", 48>>, <<"I64LOAD8U", 49>>, <<"I64LOAD16S", 50>>,
      <<"I64LOAD16U", 51>>, <<"I64LOAD32S", 52>>, <<"I64LOAD32U", 53>>,
      <<"I32STORE", 54>>, <<"I64STORE", 55>>, <<"F32STORE", 56>>,
      <<"F64STORE", 57>>, <<"I32STORE8", 58>>, <<"I32STORE16", 59>>,
      <<"I64STORE8", 60>>, <<"I64STORE16", 61>>, <<"I64STORE32", 62>>,
      <<"CURRENTMEMORY", 63>>, <<"GROWMEMORY", 64>>, <<"I32CONST", 65>>,
      <<"I64CONST", 66>>, <<"F32CONST", 67>>, <<"F64CONST", 68>>,
      <<"I32EQZ", 69>>, <<"I32EQ", 70>>, <<"I32NE", 71>>, <<"I32LTS", 72>>,
      <<"I32LTU", 73>>, <<"I32GTS", 74>>, <<"I32GTU", 75>>, <<"I32LES", 76>>,
      <<"I32LEU", 77>>, <<"I32GES", 78>>, <<"I32GEU", 79>>, <<"I64EQZ", 80>>,
      <<"I64EQ", 81>>, <<"I64NE", 82>>, <<"I64LTS", 83>>, <<"I64LTU", 84>>,
      <<"I64GTS", 85>>, <<"I64GTU", 86>>, <<"I64LES", 87>>, <<"I64LEU", 88>>,
      <<"I64GES", 89>>, <<"I64GEU", 90>>, <<"F32EQ", 91>>, <<"F32NE", 92>>,
      <<"F32LT", 93>>, <<"F32GT", 94>>, <<"F32LE", 95>>, <<"F32GE", 96>>,
      <<"F64EQ", 97>>, <<"F64NE", 98>>, <<"F64LT", 99>>, <<"F64GT", 100>>,
      <<"F64LE", 101>>, <<"F64GE", 102>>, <<"I32CLZ", 103>>,
      <<"I32CTZ", 104>>, <<"I32POPCNT", 105>>, <<"I32ADD", 106>>,
      <<"I32SUB", 107>>, <<"I32MUL", 108>>, <<"I32DIVS", 109>>,
      <<"I32DIVU", 110>>, <<"I32REMS", 111>>, <<"I32REMU", 112>>,
      <<"I32AND", 113>>, <<"I32OR", 114>>, <<"I32XOR", 115>>,
      <<"I32SHL", 116>>, <<"I32SHRS", 117>>, <<"I32SHRU", 118>>,
      <<"I32ROTL", 119>>, <<"I32ROTR", 120>>, <<"I64CLZ", 121>>,
      <<"I64CTZ", 122>>, <<"I64POPCNT", 123>>, <<"I64ADD", 124>>,
      <<"I64SUB", 125>>, <<"I64MUL", 126>>, <<"I64DIVS", 127>>,
      <<"I64DIVU", 128>>, <<"I64REMS", 129>>, <<"I64REMU", 130>>,
      <<"I64AND", 131>>, <<"I64OR", 132>>, <<"I64XOR", 133>>,
      <<"I64SHL", 134>>, <<"I64SHRS", 135>>, <<"I64SHRU", 136>>,
      <<"I64ROTL", 137>>, <<"I64ROTR", 138>>, <<"F32ABS", 139>>,
      <<"F32NEG", 140>>, <<"F32CEIL", 141>>, <<"F32FLOOR", 142>>,
      <<"F32TRUNC", 143>>, <<"F32NEAREST", 144>>, <<"F32SQRT", 145>>,
      <<"F32ADD", 146>>, <<"F32SUB", 147>>, <<"F32MUL", 148>>,
      <<"F32DIV", 149>>, <<"F32MIN", 150>>, <<"F32MAX", 151>>,
      <<"F32COPYSIGN", 152>>, <<"F64ABS", 153>>, <<"F64NEG", 154>>,
      <<"F64CEIL", 155>>, <<"F64FLOOR", 156>>, <<"F64TRUNC", 157>>,
      <<"F64NEAREST", 158>>, <<"F64SQRT", 159>>, <<"F64ADD", 160>>,
      <<"F64SUB", 161>>, <<"F64MUL", 162>>, <<"F64DIV", 163>>,
      <<"F64MIN", 164>>, <<"F64MAX", 165>>, <<"F64COPYSIGN", 166>>,
      <<"I32WRAPI64", 167>>, <<"I32TRUNCSF32", 168>>,
      <<"I32TRUNCUF32", 169>>, <<"I32TRUNCSF64", 170>>,
      <<"I32TRUNCUF64", 171>>, <<"I64EXTENDSI32", 172>>,
      <<"I64EXTENDUI32", 173>>, <<"I64TRUNCSF32", 174>>,
      <<"I64TRUNCUF32", 175>>, <<"I64TRUNCSF64", 176>>,
      <<"I64TRUNCUF64", 177>>, <<"F32CONVERTSI32", 178>>,
      <<"F32CONVERTUI32", 179>>, <<"F32CONVERTSI64", 180>>,
      <<"F32CONVERTUI64", 181>>, <<"F32DEMOTEF64", 182>>,
      <<"F64CONVERTSI32", 183>>, <<"F64CONVERTUI32", 184>>,
      <<"F64CONVERTSI64", 185>>, <<"F64CONVERTUI64", 186>>,
      <<"F64PROMOTEF32", 187>>, <<"I32REINTERPRETF32", 188>>,
      <<"I64REINTERPRETF64", 189>>, <<"F32REINTERPRETI32", 190>>,
      <<"F64REINTERPRETI64", 191>>>>

opcode_byte ==
    [name \in {OpCodes[k][1] : k \in 1..Len(OpCodes)} |->
        OpCodes[CHOOSE k \in 1..Len(OpCodes) : OpCodes[k][1] = name][2]]

\* control instructions with declared pops and push
ControlMethods ==
    <<<<"unreachable_", "UNREACHABLE", 0, FALSE, "inst">>,
      <<"nop", "NOP", 0, FALSE, "inst">>,
      <<"block", "BLOCK", 0, FALSE, "inst_block">>,
      <<"loop_", "LOOP", 0, FALSE, "inst_block">>,
      <<"if_", "IF", 1, FALSE, "inst_block">>,
      <<"br", "BR", 0, FALSE, "inst_imm32">>,
      <<"br_if", "BRIF", 1, FALSE, "inst_imm32">>,
      <<"return_", "RETURN", 0, FALSE, "inst">>>>

\* select declared as popping its two operands and not its condition
ParametricMethods_select_pops_2 ==
    <<<<"drop_", "DROP", 1, FALSE, "inst">>,
      <<"select", "SELECT", 2, TRUE, "inst">>>>

\* drop and select
ParametricMethods ==
    <<<<"drop_", "DROP", 1, FALSE, "inst">>,
      <<"select", "SELECT", 3, TRUE, "inst">>>>

\* locals and globals
VariableMethods ==
    <<<<"get_local", "GETLOCAL", 0, TRUE, "inst_imm32">>,
      <<"set_local", "SETLOCAL", 1, FALSE, "inst_imm32">>,
      <<"tee_local", "TEELOCAL", 0, FALSE, "inst_imm32">>,
      <<"get_global", "GETGLOBAL", 0, TRUE, "inst_imm32">>,
      <<"set_global", "SETGLOBAL", 1, FALSE, "inst_imm32">>>>

\* loads, stores, memory.size and memory.grow
MemoryMethods ==
    <<<<"i32_load", "I32LOAD", 1, TRUE, "inst_mem">>,
      <<"i64_load", "I64LOAD", 1, TRUE, "inst_mem">>,
      <<"f32_load", "F32LOAD", 1, TRUE, "inst_mem">>,
      <<"f64_load", "F64LOAD", 1, TRUE, "inst_mem">>,
      <<"i32_load8_s", "I32LOAD8S", 1, TRUE, "inst_mem">>,
      <<"i32_load8_u", "I32LOAD8U", 1, TRUE, "inst_mem">>,
      <<"i32_load16_s", "I32LOAD16S", 1, TRUE, "inst_mem">>,
      <<"i32_load16_u", "I32LOAD16U", 1, TRUE, "inst_mem">>,
      <<"i64_load8_s", "I64LOAD8S", 1, TRUE, "inst_mem">>,
      <<"i64_load8_u", "I64LOAD8U", 1, TRUE, "inst_mem">>,
      <<"i64_load16_s", "I64LOAD16S", 1, TRUE, "inst_mem">>,
      <<"i64_load16_u", "I64LOAD16U", 1, TRUE, "inst_mem">>,
      <<"i64_load32_s", "I64LOAD32S", 1, TRUE, "inst_mem">>,
      <<"i64_load32_u", "I64LOAD32U", 1, TRUE, "inst_mem">>,
      <<"i32_store", "I32STORE", 2, FALSE, "inst_mem">>,
      <<"i64_store", "I64STORE", 2, FALSE, "inst_mem">>,
      <<"f32_store", "F32STORE", 2, FALSE, "inst_mem">>,
      <<"f64_store", "F64STORE", 2, FALSE, "inst_mem">>,
      <<"i32_store8", "I32STORE8", 2, FALSE, "inst_mem">>,
      <<"i32_store16", "I32STORE16", 2, FALSE, "inst_mem">>,
      <<"i64_store8", "I64STORE8", 2, FALSE, "inst_mem">>,
      <<"i64_store16", "I64STORE16", 2, FALSE, "inst_mem">>,
      <<"i64_store32", "I64STORE32", 2, FALSE, "inst_mem">>,
      <<"memory_size", "CURRENTMEMORY", 0, TRUE, "memory">>,
      <<"memory_grow", "GROWMEMORY", 1, TRUE, "memory">>>>

\* the four typed constants
ConstMethods ==
    <<<<"i32_const", "I32CONST", 0, TRUE, "const">>,
      <<"i64_const", "I64CONST", 0, TRUE, "const">>,
      <<"f32_const", "F32CONST", 0, TRUE, "const">>,
      <<"f64_const", "F64CONST", 0, TRUE, "const">>>>

\* comparisons, arithmetic and conversions
NumericMethods ==
    <<<<"i32_eqz", "I32EQZ", 1, TRUE, "inst">>,
      <<"i32_eq", "I32EQ", 2, TRUE, "inst">>,
      <<"i32_ne", "I32NE", 2, TRUE, "inst">>,
      <<"i32_lt_s", "I32LTS", 2, TRUE, "inst">>,
      <<"i32_lt_u", "I32LTU", 2, TRUE, "inst">>,
      <<"i32_gt_s", "I32GTS", 2, TRUE, "inst">>,
      <<"i32_gt_u", "I32GTU", 2, TRUE, "inst">>,
      <<"i32_le_s", "I32LES", 2, TRUE, "inst">>,
      <<"i32_le_u", "I32LEU", 2, TRUE, "inst">>,
      <<"i32_ge_s", "I32GES", 2, TRUE, "inst">>,
      <<"i32_ge_u", "I32GEU", 2, TRUE, "inst">>,
      <<"i64_eqz", "I64EQZ", 1, TRUE, "inst">>,
      <<"i64_eq", "I64EQ", 2, TRUE, "inst">>,
      <<"i64_ne", "I64NE", 2, TRUE, "inst">>,
      <<"i64_lt_s", "I64LTS", 2, TRUE, "inst">>,
      <<"i64_lt_u", "I64LTU", 2, TRUE, "inst">>,
      <<"i64_gt_s", "I64GTS", 2, TRUE, "inst">>,
      <<"i64_gt_u", "I64GTU", 2, TRUE, "inst">>,
      <<"i64_le_s", "I64LES", 2, TRUE, "inst">>,
      <<"i64_le_u", "I64LEU", 2, TRUE, "inst">>,
      <<"i64_ge_s", "I64GES", 2, TRUE, "inst">>,
      <<"i64_ge_u", "I64GEU", 2, TRUE, "inst">>,
      <<"f32_eq", "F32EQ", 2, TRUE, "inst">>,
      <<"f32_ne", "F32NE", 2, TRUE, "inst">>,
      <<"f32_lt", "F32LT", 2, TRUE, "inst">>,
      <<"f32_gt", "F32GT", 2, TRUE, "inst">>,
      <<"f32_le", "F32LE", 2, TRUE, "inst">>,
      <<"f32_ge", "F32GE", 2, TRUE, "inst">>,
      <<"f64_eq", "F64EQ", 2, TRUE, "inst">>,
      <<"f64_ne", "F64NE", 2, TRUE, "inst">>,
      <<"f64_lt", "F64LT", 2, TRUE, "inst">>,
      <<"f64_gt", "F64GT", 2, TRUE, "inst">>,
      <<"f64_le", "F64LE", 2, TRUE, "inst">>,
      <<"f64_ge", "F64GE", 2, TRUE, "inst">>,
      <<"i32_clz", "I32CLZ", 1, TRUE, "inst">>,
      <<"i32_ctz", "I32CTZ", 1, TRUE, "inst">>,
      <<"i32_popcnt", "I32POPCNT", 1, TRUE, "inst">>,
      <<"i32_add", "I32ADD", 2, TRUE, "inst">>,
      <<"i32_sub", "I32SUB", 2, TRUE, "inst">>,
      <<"i32_mul", "I32MUL", 2, TRUE, "inst">>,
      <<"i32_div_s", "I32DIVS", 2, TRUE, "inst">>,
      <<"i32_div_u", "I32DIVU", 2, TRUE, "inst">>,
      <<"i32_rem_s", "I32REMS", 2, TRUE, "inst">>,
      <<"i32_rem_u", "I32REMU", 2, TRUE, "inst">>,
      <<"i32_and", "I32AND", 2, TRUE, "inst">>,
      <<"i32_or", "I32OR", 2, TRUE, "inst">>,
      <<"i32_xor", "I32XOR", 2, TRUE, "inst">>,
      <<"i32_shl", "I32SHL", 2, TRUE, "inst">>,
      <<"i32_shr_s", "I32SHRS", 2, TRUE, "inst">>,
      <<"i32_shr_u", "I32SHRU", 2, TRUE, "inst">>,
      <<"i32_rotl", "I32ROTL", 2, TRUE, "inst">>,
      <<"i32_rotr", "I32ROTR", 2, TRUE, "inst">>,
      <<"i64_clz", "I64CLZ", 1, TRUE, "inst">>,
      <<"i64_ctz", "I64CTZ", 1, TRUE, "inst">>,
      <<"i64_popcnt", "I64POPCNT", 1, TRUE, "inst">>,
      <<"i64_add", "I64ADD", 2, TRUE, "inst">>,
      <<"i64_sub", "I64SUB", 2, TRUE, "inst">>,
      <<"i64_mul", "I64MUL", 2, TRUE, "inst">>,
      <<"i64_div_s", "I64DIVS", 2, TRUE, "inst">>,
      <<"i64_div_u", "I64DIVU", 2, TRUE, "inst">>,
      <<"i64_rem_s", "I64REMS", 2, TRUE, "inst">>,
      <<"i64_rem_u", "I64REMU", 2, TRUE, "inst">>,
      <<"i64_and", "I64AND", 2, TRUE, "inst">>,
      <<"i64_or", "I64OR", 2, TRUE, "inst">>,
      <<"i64_xor", "I64XOR", 2, TRUE, "inst">>,
      <<"i64_shl", "I64SHL", 2, TRUE, "inst">>,
      <<"i64_shr_s", "I64SHRS", 2, TRUE, "inst">>,
      <<"i64_shr_u", "I64SHRU", 2, TRUE, "inst">>,
      <<"i64_rotl", "I64ROTL", 2, TRUE, "inst">>,
      <<"i64_rotr", "I64ROTR", 2, TRUE, "inst">>,
      <<"f32_abs", "F32ABS", 1, TRUE, "inst">>,
      <<"f32_neg", "F32NEG", 1, TRUE, "inst">>,
      <<"f32_ceil", "F32CEIL", 1, TRUE, "inst">>,
      <<"f32_floor", "F32FLOOR", 1, TRUE, "inst">>,
      <<"f32_trunc", "F32TRUNC", 1, TRUE, "inst">>,
      <<"f32_nearest", "F32NEAREST", 1, TRUE, "inst">>,
      <<"f32_sqrt", "F32SQRT", 1, TRUE, "inst">>,
      <<"f32_add", "F32ADD", 2, TRUE, "inst">>,
      <<"f32_sub", "F32SUB", 2, TRUE, "inst">>,
      <<"f32_mul", "F32MUL", 2, TRUE, "inst">>,
      <<"f32_div", "F32DIV", 2, TRUE, "inst">>,
      <<"f32_min", "F32MIN", 2, TRUE, "inst">>,
      <<"f32_max", "F32MAX", 2, TRUE, "inst">>,
      <<"f32_copysign", "F32COPYSIGN", 2, TRUE, "inst">>,
      <<"f64_abs", "F64ABS", 1, TRUE, "inst">>,
      <<"f64_neg", "F64NEG", 1, TRUE, "inst">>,
      <<"f64_ceil", "F64CEIL", 1, TRUE, "inst">>,
      <<"f64_floor", "F64FLOOR", 1, TRUE, "inst">>,
      <<"f64_trunc", "F64TRUNC", 1, TRUE, "inst">>,
      <<"f64_nearest", "F64NEAREST", 1, TRUE, "inst">>,
      <<"f64_sqrt", "F64SQRT", 1, TRUE, "inst">>,
      <<"f64_add", "F64ADD", 2, TRUE, "inst">>,
      <<"f64_sub", "F64SUB", 2, TRUE, "inst">>,
      <<"f64_mul", "F64MUL", 2, TRUE, "inst">>,
      <<"f64_div", "F64DIV", 2, TRUE, "inst">>,
      <<"f64_min", "F64MIN", 2, TRUE, "inst">>,
      <<"f64_max", "F64MAX", 2, TRUE, "inst">>,
      <<"f64_copysign", "F64COPYSIGN", 2, TRUE, "inst">>,
      <<"i32_wrap_i64", "I32WRAPI64", 1, TRUE, "inst">>,
      <<"i32_trunc_s_f32", "I32TRUNCSF32", 1, TRUE, "inst">>,
      <<"i32_trunc_u_f32", "I32TRUNCUF32", 1, TRUE, "inst">>,
      <<"i32_trunc_s_f64", "I32TRUNCSF64", 1, TRUE, "inst">>,
      <<"i32_trunc_u_f64", "I32TRUNCUF64", 1, TRUE, "inst">>,
      <<"i64_extend_s_i32", "I64EXTENDSI32", 1, TRUE, "inst">>,
      <<"i64_extend_u_i32", "I64EXTENDUI32", 1, TRUE, "inst">>,
      <<"i64_trunc_s_f32", "I64TRUNCSF32", 1, TRUE, "inst">>,
      <<"i64_trunc_u_f32", "I64TRUNCUF32", 1, TRUE, "inst">>,
      <<"i64_trunc_s_f64", "I64TRUNCSF64", 1, TRUE, "inst">>,
      <<"i64_trunc_u_f64", "I64TRUNCUF64", 1, TRUE, "inst">>,
      <<"f32_convert_s_i32", "F32CONVERTSI32", 1, TRUE, "inst">>,
      <<"f32_convert_u_i32", "F32CONVERTUI32", 1, TRUE, "inst">>,
      <<"f32_convert_s_i64", "F32CONVERTSI64", 1, TRUE, "inst">>,
      <<"f32_convert_u_i64", "F32CONVERTUI64", 1, TRUE, "inst">>,
      <<"f32_demote_f64", "F32DEMOTEF64", 1, TRUE, "inst">>,
      <<"f64_convert_s_i32", "F64CONVERTSI32", 1, TRUE, "inst">>,
      <<"f64_convert_u_i32", "F64CONVERTUI32", 1, TRUE, "inst">>,
      <<"f64_convert_s_i64", "F64CONVERTSI64", 1, TRUE, "inst">>,
      <<"f64_convert_u_i64", "F64CONVERTUI64", 1, TRUE, "inst">>,
      <<"f64_promote_f32", "F64PROMOTEF32", 1, TRUE, "inst">>,
      <<"i32_reinterpret_f32", "I32REINTERPRETF32", 1, TRUE, "inst">>,
      <<"i64_reinterpret_f64", "I64REINTERPRETF64", 1, TRUE, "inst">>,
      <<"f32_reinterpret_i32", "F32REINTERPRETI32", 1, TRUE, "inst">>,
      <<"f64_reinterpret_i64", "F64REINTERPRETI64", 1, TRUE, "inst">>>>

InstructionMethods ==
    ControlMethods \o ParametricMethods \o VariableMethods \o MemoryMethods
        \o ConstMethods \o NumericMethods

\* the call of the instruction method m with the arguments of its signature
call_method(cb, m, arg) ==
    LET opcode == opcode_byte[m[2]]
        pops == m[3]
        push == m[4]
        helper == m[5]
    IN CASE helper = "inst" -> inst(cb, opcode, pops, push)
         [] helper = "inst_block" -> inst_block(cb, opcode, pops, arg.block_type)
         [] helper = "inst_imm32" -> inst_imm32(cb, opcode, pops, push, arg.immediate)
         [] helper = "inst_mem" ->
                inst_mem(cb, opcode, pops, push, arg.align, arg.offset)
         [] helper = "memory" ->
                [inst(cb, opcode, pops, push) EXCEPT !.code = Append(@, 0)]
         [] helper = "const" ->
                [inst_base(cb, opcode, pops, push) EXCEPT
                    !.code = @ \o (CASE m[1] = "i32_const" -> encode_i32(arg.x)
                                     [] m[1] = "i64_const" -> encode_i64(arg.x)
                                     [] m[1] = "f32_const" -> encode_f32(arg.bits[2])
                                     [] m[1] = "f64_const" -> encode_f64(arg.bits))]

(***************************************************************************)
(* Function header                                                         *)
(***************************************************************************)
\* the body of the loop over local_types; st holds the preamble and the
\* loop's variables
batch_step(st, t) ==
    IF t = st.batch_type
    THEN [st EXCEPT !.batch_size = @ + 1]
    ELSE [st EXCEPT !.bytes = @ \o encode_u32(st.batch_size) \o <<st.batch_type>>,
                    !.batch_type = t,
                    !.batch_size = 1,
                    !.num_batches = @ + 1]

\* `for t in local_types`, over local_types[lo..hi] in order
RECURSIVE for_local_types(_, _, _, _)
for_local_types(local_types, lo, hi, st) ==
    IF lo > hi THEN st
    ELSE IF lo = hi THEN batch_step(st, local_types[lo])
    ELSE LET mid == (lo + hi) \div 2
             half == for_local_types(local_types, lo, mid, st)
         IN \* the variables after local_types[mid], then the rest of the loop
            IF half.num_batches >= 0
            THEN for_local_types(local_types, mid + 1, hi, half)
            ELSE half

\* the loop, and the last batch after it
local_batches(bytes, local_types) ==
    LET st == for_local_types(local_types, 1, Len(local_types),
                  [bytes |-> bytes, num_batches |-> 0,
                   batch_type |-> local_types[1], batch_size |-> 0])
    IN [st EXCEPT !.bytes = @ \o encode_u32(st.batch_size) \o <<st.batch_type>>,
                  !.num_batches = @ + 1]

\* build_local_declarations writing the padded count over the first batches
build_local_declarations_unshifted(cb, local_types) ==
    LET reserved == Append(cb.preamble, 0)
    IN IF local_types = << >>
       THEN [cb EXCEPT !.preamble = reserved]
       ELSE LET r == local_batches(reserved, local_types)
            IN IF r.num_batches < 128
               THEN [cb EXCEPT !.preamble = [r.bytes EXCEPT ![1] = r.num_batches]]
               ELSE [cb EXCEPT !.preamble =
                        encode_padded_u32(r.num_batches)
                            \o SubSeq(r.bytes, 6, Len(r.bytes))]

build_local_declarations(cb, local_types) ==
    LET reserved == Append(cb.preamble, 0)
    IN IF local_types = << >>
       THEN [cb EXCEPT !.preamble = reserved]
       ELSE LET r == local_batches(reserved, local_types)
            IN IF r.num_batches < 128
               THEN [cb EXCEPT !.preamble = [r.bytes EXCEPT ![1] = r.num_batches]]
               ELSE [cb EXCEPT !.preamble =
                        encode_padded_u32(r.num_batches)
                            \o SubSeq(r.bytes, 2, Len(r.bytes))]

build_stack_frame_push(cb, frame_size, frame_pointer) ==
    [cb EXCEPT !.preamble =
        @ \o <<GETGLOBAL>> \o encode_u32(STACK_POINTER_GLOBAL_ID)
          \o <<I32CONST>> \o encode_i32(frame_size)
          \o <<I32SUB>>
          \o <<TEELOCAL>> \o encode_u32(frame_pointer)
          \o <<SETGLOBAL>> \o encode_u32(STACK_POINTER_GLOBAL_ID)]

\* build_stack_frame_pop that leaves the new stack pointer on the stack
build_stack_frame_pop_unset(cb, frame_size, frame_pointer) ==
    i32_add(i32_const(get_local(cb, frame_pointer), frame_size))

build_stack_frame_pop(cb, frame_size, frame_pointer) ==
    set_global(i32_add(i32_const(get_local(cb, frame_pointer), frame_size)),
               STACK_POINTER_GLOBAL_ID)

\* no sort: the insertions stay in the order of their creation
sort_by_key_none(ins) == ins

\* stable sort of the insertions by `at`
RECURSIVE sort_by_key(_)
sort_by_key(ins) ==
    IF ins = << >> THEN << >>
    ELSE LET sorted == sort_by_key(SubSeq(ins, 1, Len(ins) - 1))
             x == Last(ins)
             k == Cardinality({j \in 1..Len(sorted) : sorted[j].at <= x.at})
         IN SubSeq(sorted, 1, k) \o <<x>> \o SubSeq(sorted, k + 1, Len(sorted))

\* inner_len that leaves out the inserted bytes
inner_len_no_inserts(cb) == Len(cb.preamble) + Len(cb.code)

\* inner_len as written to inner_length
inner_len(cb) == Len(cb.preamble) + Len(cb.code) + Len(cb.insert_bytes)

build_fn_header(cb, local_types, frame_size, frame_pointer) ==
    LET declared == build_local_declarations(cb, local_types)
        aligned_size == round_up_to_alignment(frame_size, FRAME_ALIGNMENT_BYTES)
        framed == IF frame_pointer.tag = "Some"
                  THEN build_stack_frame_pop(
                           build_stack_frame_push(declared, aligned_size,
                                                  frame_pointer.v),
                           aligned_size, frame_pointer.v)
                  ELSE declared
        ended == [framed EXCEPT !.code = Append(@, END)]
        measured == [ended EXCEPT !.inner_length = @ \o encode_u32(inner_len(ended))]
    IN [measured EXCEPT !.insertions = sort_by_key(@)]

(***************************************************************************)
(* Serialize                                                               *)
(***************************************************************************)
\* in_segment taking the relocation at next_pos itself into the segment
in_segment_inclusive(reloc_offset, next_pos) == reloc_offset <= next_pos

\* the relocation is written with the segment of code that ends at next_pos
in_segment(reloc_offset, next_pos) == reloc_offset < next_pos

\* final_offset that forgets the code already written
final_offset_no_code_pos(reloc_offset, section_body_pos, code_pos) ==
    reloc_offset + section_body_pos

\* the offset of a relocation in the body of the code section
final_offset(reloc_offset, section_body_pos, code_pos) ==
    reloc_offset + (section_body_pos - code_pos)

\* the while loop over the relocations of one segment
RECURSIVE reloc_loop(_, _, _, _, _)
reloc_loop(cb, st, next_pos, section_body_pos, code_pos) ==
    IF st.reloc_index < Len(cb.relocations)
       /\ in_segment(cb.relocations[st.reloc_index + 1].offset, next_pos)
    THEN LET reloc == cb.relocations[st.reloc_index + 1]
             reloc_clone ==
                 [reloc EXCEPT !.offset =
                     final_offset(@, section_body_pos, code_pos)]
         IN reloc_loop(cb,
                       [st EXCEPT !.final_relocs = Append(@, reloc_clone),
                                  !.reloc_index = @ + 1],
                       next_pos, section_body_pos, code_pos)
    ELSE st

\* insertion_bytes that reads insert_bytes from its beginning
insertion_bytes_from_zero(cb, ins) == Slice(cb.insert_bytes, 0, ins.end - ins.start)

\* the bytes written for one insertion
insertion_bytes(cb, ins) == Slice(cb.insert_bytes, ins.start, ins.end)

\* the loop over the insertions; st.insert_iter is the next insertion
RECURSIVE serialize_loop(_, _, _)
serialize_loop(cb, st, base) ==
    LET has_next == st.insert_iter <= Len(cb.insertions)
        next_insert == cb.insertions[st.insert_iter]
        next_pos == IF has_next THEN next_insert.at ELSE Len(cb.code)
        section_body_pos == Len(st.buffer) - base
        relocated == reloc_loop(cb, st, next_pos, section_body_pos, st.code_pos)
        segment == [relocated EXCEPT
                       !.buffer = @ \o Slice(cb.code, st.code_pos, next_pos)]
    IN IF has_next
       THEN serialize_loop(cb,
                [segment EXCEPT !.buffer = @ \o insertion_bytes(cb, next_insert),
                                !.code_pos = next_insert.at,
                                !.insert_iter = @ + 1],
                base)
       ELSE segment

serialize_with_relocs(cb, buf, relocs, base) ==
    serialize_loop(cb,
        [buffer |-> buf \o cb.inner_length \o cb.preamble,
         final_relocs |-> relocs, reloc_index |-> 0, code_pos |-> 0,
         insert_iter |-> 1],
        base)

(***************************************************************************)
(* The driver: instruction calls in IR order, then build_fn_header; the    *)
(* module assembler then serializes into its buffer                        *)
(***************************************************************************)
Init ==
    /\ SetInit(new)
    /\ sym_state = [s \in Symbols |-> NotYetPushed]
    /\ phase = "building"
    /\ aborted = FALSE
    /\ overflow_checks = TRUE
    /\ buffer = << >>
    /\ final_relocs = << >>
    /\ reloc_base_offset = 0
    /\ observed = None

\* a panic: the process is gone, and the builder and the driver with it
Abort ==
    /\ aborted' = TRUE
    /\ SetCB([new EXCEPT !.vm_block_stack = << >>])
    /\ sym_state' = [s \in Symbols |-> None]
    /\ UNCHANGED <<phase, overflow_checks, observed,
                   buffer, final_relocs, reloc_base_offset>>

Building == phase = "building" /\ ~aborted

\* an instruction method that either panics or leaves the builder as cb;
\* max bounds the code the driver emits
Emit(panics, cb, max) ==
    /\ Building
    /\ IF panics
       THEN Abort
       ELSE /\ Len(cb.code) <= max
            /\ SetCB(cb)
            /\ UNCHANGED <<sym_state, phase, aborted, overflow_checks, observed,
                           buffer, final_relocs, reloc_base_offset>>

I32Const(max) ==
    \E x \in ConstVals : Emit(inst_base_panics(CB, 0), i32_const(CB, x), max)

I32Eqz(max) == Emit(inst_base_panics(CB, 1), i32_eqz(CB), max)

I32Add(max) == Emit(inst_base_panics(CB, 2), i32_add(CB), max)

Drop(max) == Emit(inst_base_panics(CB, 1), drop_(CB), max)

Block(max) ==
    \E ty \in BlockTypes : Emit(inst_base_panics(CB, 0), block(CB, ty), max)

If(max) ==
    \E ty \in BlockTypes : Emit(inst_base_panics(CB, 1), if_(CB, ty), max)

Else(max) == Emit(FALSE, else_(CB), max)

End(max) == Emit(end_panics(CB), end(CB), max)

Unreachable(max) == Emit(inst_base_panics(CB, 0), unreachable_(CB), max)

Loop(max) ==
    \E ty \in BlockTypes : Emit(inst_base_panics(CB, 0), loop_(CB, ty), max)

Br(max) ==
    \E levels \in BranchLevels : Emit(inst_base_panics(CB, 0), br(CB, levels), max)

BrIf(max) ==
    \E levels \in BranchLevels :
        Emit(inst_base_panics(CB, 1), br_if(CB, levels), max)

Return(max) == Emit(inst_base_panics(CB, 0), return_(CB), max)

TeeLocal(max) ==
    \E id \in LocalIds : Emit(inst_base_panics(CB, 0), tee_local(CB, id), max)

CallFn(callee, max) ==
    Emit(inst_base_panics(CB, callee[3]),
         call(CB, callee[1], callee[2], callee[3], callee[4]), max)

Call(max) == \E callee \in Callees : CallFn(callee, max)

InsertMemoryRelocation(max) ==
    /\ Cardinality({i \in 1..Len(relocations) :
                       relocations[i].type_id = "MemoryAddrLeb"}) < MaxMemRelocs
    /\ Emit(FALSE, insert_memory_relocation(CB, 0), max)

\* the driver tags the value its last instruction produced, once per symbol,
\* and takes its symbols in order
SetTopSymbol(sym) ==
    /\ Building
    /\ sym_state[sym] = NotYetPushed
    /\ \A other \in Symbols : other < sym => sym_state[other] # NotYetPushed
    /\ IF set_top_symbol_panics(CB)
       THEN Abort
       ELSE LET r == set_top_symbol(CB, sym)
            IN /\ SetCB(r.cb)
               /\ sym_state' = [sym_state EXCEPT ![sym] = r.ret]
               /\ UNCHANGED <<phase, aborted, overflow_checks, observed,
                              buffer, final_relocs, reloc_base_offset>>

\* the driver loads a symbol it holds a state for, and stores what it gets
LoadSymbol(sym, next_local_id, max) ==
    /\ Building
    /\ sym_state[sym].tag \in {"Pushed", "Popped"}
    /\ LET r == load_symbol(CB, sym, sym_state[sym], next_local_id)
       IN /\ Len(r.cb.code) <= max
          /\ SetCB(r.cb)
          /\ sym_state' = [sym_state EXCEPT
                              ![sym] = IF r.ret.tag = "Some" THEN r.ret.v ELSE None]
          /\ UNCHANGED <<phase, aborted, overflow_checks, observed,
                         buffer, final_relocs, reloc_base_offset>>

BuildFnHeader(local_types, frame_size, frame_pointer) ==
    /\ Building
    /\ SetCB(build_fn_header(CB, local_types, frame_size, frame_pointer))
    /\ phase' = "built"
    /\ UNCHANGED <<sym_state, aborted, overflow_checks, observed,
                   buffer, final_relocs, reloc_base_offset>>

\* the first step of build_fn_header, on its own
BuildLocalDeclarations(local_types) ==
    /\ Building
    /\ SetCB(build_local_declarations(CB, local_types))
    /\ phase' = "declared"
    /\ UNCHANGED <<sym_state, aborted, overflow_checks, observed,
                   buffer, final_relocs, reloc_base_offset>>

\* what the module assembler wrote before this function
WritePrefix ==
    /\ phase = "built"
    /\ buffer = << >>
    /\ \E prefix \in Prefixes : buffer' = prefix
    /\ UNCHANGED <<builder_vars, sym_state, phase, aborted, overflow_checks,
                   observed,
                   final_relocs, reloc_base_offset>>

\* serialize_with_relocs taking the insertions out of the builder
SerializeWithRelocsDraining(base) ==
    /\ phase = "built"
    /\ LET st == serialize_with_relocs(CB, buffer, final_relocs, base)
       IN /\ buffer' = st.buffer
          /\ final_relocs' = st.final_relocs
    /\ reloc_base_offset' = base
    /\ phase' = "serialized"
    /\ observed' = [buffer |-> buffer, final_relocs |-> final_relocs]
    /\ insertions' = << >>
    /\ UNCHANGED <<code, insert_bytes, preamble, inner_length, vm_block_stack,
                   relocations, sym_state, aborted, overflow_checks>>

\* observed keeps the buffer and the relocations that were handed in
SerializeWithRelocs(base) ==
    /\ phase = "built"
    /\ LET st == serialize_with_relocs(CB, buffer, final_relocs, base)
       IN /\ buffer' = st.buffer
          /\ final_relocs' = st.final_relocs
    /\ reloc_base_offset' = base
    /\ phase' = "serialized"
    /\ observed' = [buffer |-> buffer, final_relocs |-> final_relocs]
    /\ UNCHANGED <<builder_vars, sym_state, aborted, overflow_checks>>

\* the same function serialized once more, into the buffer and relocation
\* list the first call was given, with the same reloc_base_offset
SerializeAgain ==
    /\ phase = "serialized"
    /\ LET st == serialize_with_relocs(CB, observed.buffer, observed.final_relocs,
                                       reloc_base_offset)
       IN observed' = [buffer |-> st.buffer, final_relocs |-> st.final_relocs]
    /\ phase' = "serialized twice"
    /\ UNCHANGED <<builder_vars, sym_state, aborted, overflow_checks,
                   buffer, final_relocs, reloc_base_offset>>

\* serialize_with_relocs panics when an insertion lies before the one that
\* precedes it: code[code_pos..next_pos] with code_pos > next_pos
serialize_with_relocs_panics(cb) ==
    \E k \in 2..Len(cb.insertions) : cb.insertions[k - 1].at > cb.insertions[k].at

\* serialize_with_relocs called on a builder whose build_fn_header was not
\* called: the method takes any CodeBuilder
SerializeUnbuilt(base) ==
    /\ Building
    /\ IF serialize_with_relocs_panics(CB)
       THEN Abort
       ELSE /\ LET st == serialize_with_relocs(CB, buffer, final_relocs, base)
               IN /\ buffer' = st.buffer
                  /\ final_relocs' = st.final_relocs
            /\ reloc_base_offset' = base
            /\ phase' = "serialized"
            /\ observed' = [buffer |-> buffer, final_relocs |-> final_relocs]
            /\ UNCHANGED <<builder_vars, sym_state, aborted, overflow_checks>>

\* the driver asks whether the symbols are on top of the stack
VerifyStackMatch(symbols) ==
    /\ Building
    /\ observed' = [symbols |-> symbols, result |-> verify_stack_match(CB, symbols)]
    /\ UNCHANGED <<builder_vars, sym_state, phase, aborted, overflow_checks,
                   buffer, final_relocs, reloc_base_offset>>

\* how many instruction methods the driver called through CallMethod
Called == IF observed = None THEN 0 ELSE observed.called

\* the driver calls one of the instruction methods; observed keeps which one
CallMethod(m, arg, max) ==
    /\ Building
    /\ Called < MaxMethodCalls
    /\ IF inst_base_panics(CB, m[3])
       THEN Abort
       ELSE LET cb == call_method(CB, m, arg)
            IN /\ Len(cb.code) <= max
               /\ SetCB(cb)
               /\ observed' = [method |-> m, called |-> Called + 1]
               /\ UNCHANGED <<sym_state, phase, aborted, overflow_checks,
                              buffer, final_relocs, reloc_base_offset>>

\* the end of every function: header, then serialization
Finish ==
    \/ \E args \in HeaderArgs : BuildFnHeader(args[1], args[2], args[3])
    \/ WritePrefix
    \/ \E base \in 0..Len(buffer) : SerializeWithRelocs(base)

\* functions with control blocks and calls
Next ==
    \/ I32Const(MaxCodeLen)
    \/ I32Add(MaxCodeLen)
    \/ Drop(MaxCodeLen)
    \/ Block(MaxCodeLen)
    \/ If(MaxCodeLen)
    \/ Else(MaxCodeLen)
    \/ End(MaxCodeLen)
    \/ Call(MaxCodeLen)
    \/ \E sym \in Symbols : SetTopSymbol(sym)
    \/ \E sym \in Symbols, id \in LocalIds : LoadSymbol(sym, id, MaxCodeLen)
    \/ Finish

Spec == Init /\ [][Next]_vars

\* straight-line functions with memory relocations
NextFlat ==
    \/ I32Const(MaxFlatLen)
    \/ I32Eqz(MaxFlatLen)
    \/ Call(MaxFlatLen)
    \/ InsertMemoryRelocation(MaxFlatLen)
    \/ \E sym \in Symbols : SetTopSymbol(sym)
    \/ \E sym \in Symbols, id \in LocalIds : LoadSymbol(sym, id, MaxFlatLen)
    \/ Finish

SpecFlat == Init /\ [][NextFlat]_vars

\* functions with blocks and branches
NextCtl ==
    \/ I32Const(MaxCtlLen)
    \/ Drop(MaxCtlLen)
    \/ Unreachable(MaxCtlLen)
    \/ Block(MaxCtlLen)
    \/ Loop(MaxCtlLen)
    \/ If(MaxCtlLen)
    \/ Else(MaxCtlLen)
    \/ End(MaxCtlLen)
    \/ Br(MaxCtlLen)
    \/ BrIf(MaxCtlLen)
    \/ Return(MaxCtlLen)
    \/ TeeLocal(MaxCtlLen)
    \/ \E sym \in Symbols : SetTopSymbol(sym)
    \/ \E sym \in Symbols, id \in LocalIds : LoadSymbol(sym, id, MaxCtlLen)

SpecCtl == Init /\ [][NextCtl]_vars

\* the builder in a build with or without overflow checks
InitBuilds ==
    /\ SetInit(new)
    /\ sym_state = [s \in Symbols |-> NotYetPushed]
    /\ phase = "building"
    /\ aborted = FALSE
    /\ overflow_checks \in BOOLEAN
    /\ buffer = << >>
    /\ final_relocs = << >>
    /\ reloc_base_offset = 0
    /\ observed = None

\* functions with blocks, in either build
NextBuilds ==
    \/ I32Const(MaxBuildLen)
    \/ I32Add(MaxBuildLen)
    \/ Drop(MaxBuildLen)
    \/ Block(MaxBuildLen)
    \/ If(MaxBuildLen)
    \/ Else(MaxBuildLen)
    \/ End(MaxBuildLen)

SpecBuilds == InitBuilds /\ [][NextBuilds]_vars

\* the local declarations of every list of locals
NextLocals == \E local_types \in LocalTypeLists : BuildLocalDeclarations(local_types)

SpecLocals == Init /\ [][NextLocals]_vars

\* functions whose stack the driver compares with the symbols it expects
NextMatch ==
    \/ I32Const(MaxMatchLen)
    \/ Block(MaxMatchLen)
    \/ End(MaxMatchLen)
    \/ \E sym \in Symbols : SetTopSymbol(sym)
    \/ \E symbols \in SymbolLists : VerifyStackMatch(symbols)

SpecMatch == Init /\ [][NextMatch]_vars

\* straight-line functions serialized twice
NextTwice ==
    \/ I32Const(MaxTwiceLen)
    \/ I32Eqz(MaxTwiceLen)
    \/ InsertMemoryRelocation(MaxTwiceLen)
    \/ \E sym \in Symbols : SetTopSymbol(sym)
    \/ \E sym \in Symbols, id \in LocalIds : LoadSymbol(sym, id, MaxTwiceLen)
    \/ Finish
    \/ SerializeAgain

SpecTwice == Init /\ [][NextTwice]_vars

\* functions of constants and calls
NextCalls ==
    \/ I32Const(MaxCallLen)
    \/ Drop(MaxCallLen)
    \/ Call(MaxCallLen)

SpecCalls == Init /\ [][NextCalls]_vars

\* straight-line functions serialized with or without their header
NextRelocs ==
    \/ I32Const(MaxRelocLen)
    \/ InsertMemoryRelocation(MaxRelocLen)
    \/ \E sym \in Symbols : SetTopSymbol(sym)
    \/ \E sym \in Symbols, id \in LocalIds : LoadSymbol(sym, id, MaxRelocLen)
    \/ Finish
    \/ \E base \in 0..Len(buffer) : SerializeUnbuilt(base)

SpecRelocs == Init /\ [][NextRelocs]_vars

\* functions with a block, calls, relocations and promoted symbols
NextOffsets ==
    \/ I32Const(MaxOffsetsLen)
    \/ Drop(MaxOffsetsLen)
    \/ Block(MaxOffsetsLen)
    \/ End(MaxOffsetsLen)
    \/ Call(MaxOffsetsLen)
    \/ InsertMemoryRelocation(MaxOffsetsLen)
    \/ \E sym \in Symbols : SetTopSymbol(sym)
    \/ \E sym \in Symbols, id \in LocalIds : LoadSymbol(sym, id, MaxOffsetsLen)
    \/ Finish

SpecOffsets == Init /\ [][NextOffsets]_vars

\* functions of nested blocks, in either build
NextBlocks ==
    \/ I32Const(MaxBlocksLen)
    \/ Drop(MaxBlocksLen)
    \/ Block(MaxBlocksLen)
    \/ Loop(MaxBlocksLen)
    \/ If(MaxBlocksLen)
    \/ Else(MaxBlocksLen)
    \/ End(MaxBlocksLen)
    \/ \E sym \in Symbols : SetTopSymbol(sym)

SpecBlocks == InitBuilds /\ [][NextBlocks]_vars

\* constants, then instruction methods of any kind
NextMethods ==
    \/ Called = 0 /\ I32Const(MaxMethodsLen)
    \/ \E k \in 1..Len(InstructionMethods), arg \in MethodArgs :
           CallMethod(InstructionMethods[k], arg, MaxMethodsLen)

SpecMethods == Init /\ [][NextMethods]_vars

(***************************************************************************)
(* Properties of load_symbol                                               *)
(***************************************************************************)
\* the value_stack of the current (innermost) block
CurrentStack == vm_block_stack[Len(vm_block_stack)].value_stack

\* the blocks and stack positions that hold sym
Occurrences(sym) ==
    {<<b, k>> \in (1..Len(vm_block_stack)) \X (1..(MaxCodeLen + MaxFlatLen)) :
        /\ k <= Len(vm_block_stack[b].value_stack)
        /\ vm_block_stack[b].value_stack[k] = sym}

IsOnTop(sym) == CurrentStack # << >> /\ CurrentStack[Len(CurrentStack)] = sym

\* the block stack with sym pushed on the current block
WithTop(blocks, sym) ==
    [blocks EXCEPT ![Len(blocks)].value_stack = Append(@, sym)]

\* one insertion of opcode and local id at `at` was appended, and nothing
\* else was inserted
OneInsertion(at, opcode, id) ==
    /\ insert_bytes' = insert_bytes \o <<opcode>> \o encode_u32(id)
    /\ insertions' = Append(insertions,
                            [at |-> at, start |-> Len(insert_bytes),
                             end |-> Len(insert_bytes')])

\* local.get id was appended at the end of code
LocalGetAppended(id) == code' = code \o <<GETLOCAL>> \o encode_u32(id)

\* C1: load_symbol of a Pushed symbol that is the top entry of the current
\* block's value_stack returns Popped with the same pushed_at and leaves code,
\* insert_bytes, insertions, relocations and every value_stack unchanged.
C1_FastPath ==
    [][\A sym \in Symbols, id \in LocalIds :
        (/\ LoadSymbol(sym, id, MaxCodeLen)
         /\ sym_state[sym].tag = "Pushed"
         /\ IsOnTop(sym))
        => (/\ sym_state'[sym] = Popped(sym_state[sym].pushed_at)
            /\ UNCHANGED <<code, insert_bytes, insertions, relocations,
                           vm_block_stack, preamble, inner_length>>)]_vars

\* a symbol was loaded from the top of a stack of two, and nothing was inserted
C1_Witness ==
    /\ phase = "building"
    /\ \E sym \in Symbols :
        /\ sym_state[sym].tag = "Popped"
        /\ Len(CurrentStack) = 2
        /\ IsOnTop(sym)
    /\ insertions = << >>

\* C2: load_symbol of a Pushed symbol that is not on top of the current
\* block's value_stack but is in some block's value_stack removes that entry,
\* appends one Insertion of `local.set id` at pushed_at, appends
\* `local.get id` to code, leaves the symbol on top of the current block and
\* returns absent.
C2_CaseB ==
    [][\A sym \in Symbols, id \in LocalIds :
        (/\ LoadSymbol(sym, id, MaxCodeLen)
         /\ sym_state[sym].tag = "Pushed"
         /\ ~IsOnTop(sym)
         /\ Occurrences(sym) # {})
        => (/\ Cardinality(Occurrences(sym)) = 1
            /\ LET o == CHOOSE o \in Occurrences(sym) : TRUE
                   removed == [vm_block_stack EXCEPT
                                  ![o[1]].value_stack = RemoveAt(@, o[2])]
               IN vm_block_stack' = WithTop(removed, sym)
            /\ OneInsertion(sym_state[sym].pushed_at, SETLOCAL, id)
            /\ LocalGetAppended(id)
            /\ sym_state'[sym] = None
            /\ UNCHANGED <<relocations, preamble, inner_length>>)]_vars

\* a symbol was taken out of the outer block while an inner block is open
C2_Witness ==
    /\ phase = "building"
    /\ Len(vm_block_stack) = 2
    /\ vm_block_stack[1].value_stack = << >>
    /\ \E sym \in Symbols :
        /\ sym_state[sym] = None
        /\ CurrentStack = <<sym>>
    /\ Len(insertions) = 1
    /\ insert_bytes[1] = SETLOCAL

\* C3: load_symbol of a Pushed symbol that is in no block's value_stack
\* appends one Insertion of `local.tee id` at pushed_at, removes nothing,
\* appends `local.get id` to code, leaves the symbol on top of the current
\* block and returns absent.
C3_CaseC ==
    [][\A sym \in Symbols, id \in LocalIds :
        (/\ LoadSymbol(sym, id, MaxCodeLen)
         /\ sym_state[sym].tag = "Pushed"
         /\ Occurrences(sym) = {})
        => (/\ vm_block_stack' = WithTop(vm_block_stack, sym)
            /\ OneInsertion(sym_state[sym].pushed_at, TEELOCAL, id)
            /\ LocalGetAppended(id)
            /\ sym_state'[sym] = None
            /\ UNCHANGED <<relocations, preamble, inner_length>>)]_vars

\* a symbol tagged inside a block that ended without a result was loaded
\* afterwards
C3_Witness ==
    /\ phase = "building"
    /\ Len(vm_block_stack) = 1
    /\ Len(code) >= 5
    /\ code[1] = BLOCK /\ code[2] = NoResult /\ code[5] = END
    /\ \E sym \in Symbols :
        /\ sym_state[sym] = None
        /\ CurrentStack = <<sym>>
    /\ Len(insertions) = 1
    /\ insertions[1].at = 4
    /\ insert_bytes[1] = TEELOCAL

\* C4: load_symbol of a Popped symbol appends one Insertion of `local.tee id`
\* at pushed_at, appends one `local.get id` to code, pushes one entry tagged
\* with the symbol on the current block's value_stack and returns absent,
\* whatever the value stacks hold.
C4_DeferredTee ==
    [][\A sym \in Symbols, id \in LocalIds :
        (/\ LoadSymbol(sym, id, MaxCodeLen)
         /\ sym_state[sym].tag = "Popped")
        => (/\ vm_block_stack' = WithTop(vm_block_stack, sym)
            /\ OneInsertion(sym_state[sym].pushed_at, TEELOCAL, id)
            /\ LocalGetAppended(id)
            /\ sym_state'[sym] = None
            /\ UNCHANGED <<relocations, preamble, inner_length>>)]_vars

\* a symbol was pushed, loaded from the top, dropped and loaded again
C4_Witness ==
    /\ phase = "building"
    /\ Len(code) >= 5
    /\ code[1] = I32CONST /\ code[3] = DROP /\ code[4] = GETLOCAL
    /\ \E sym \in Symbols :
        /\ sym_state[sym] = None
        /\ CurrentStack = <<sym>>
    /\ Len(insertions) = 1
    /\ insertions[1].at = 2
    /\ insert_bytes[1] = TEELOCAL

\* the order of the lifecycle
Rank(state) ==
    CASE state.tag = "NotYetPushed" -> 0
      [] state.tag = "Pushed" -> 1
      [] state.tag = "Popped" -> 2
      [] state.tag = "None" -> 3

\* C5: the state the driver holds for a symbol only moves forward:
\* set_top_symbol gives Pushed; load_symbol gives a state only for a Pushed
\* symbol, and then Popped with the same pushed_at; load_symbol of a Popped
\* symbol gives absent, so the fast path is taken at most once per symbol.
C5_Lifecycle ==
    [][~aborted' =>
        /\ \A sym \in Symbols :
            sym_state'[sym] # sym_state[sym] =>
                /\ Rank(sym_state'[sym]) > Rank(sym_state[sym])
                /\ sym_state'[sym].tag = "Pushed" =>
                       /\ sym_state[sym].tag = "NotYetPushed"
                       /\ sym_state'[sym].pushed_at = Len(code)
                /\ sym_state'[sym].tag = "Popped" =>
                       /\ sym_state[sym].tag = "Pushed"
                       /\ sym_state'[sym].pushed_at = sym_state[sym].pushed_at
        /\ \A sym \in Symbols :
            SetTopSymbol(sym) => sym_state'[sym].tag = "Pushed"
        /\ \A sym \in Symbols, id \in LocalIds :
            LoadSymbol(sym, id, MaxCodeLen) =>
                /\ sym_state'[sym].tag \in {"Popped", "None"}
                /\ sym_state[sym].tag = "Popped" => sym_state'[sym] = None]_vars

\* one symbol went through Pushed and Popped to a local, another is Popped
C5_Witness ==
    /\ ~aborted
    /\ phase = "building"
    /\ Len(insertions) = 1
    /\ insert_bytes[1] = TEELOCAL
    /\ \E s1, s2 \in Symbols :
        /\ sym_state[s1] = None
        /\ sym_state[s2].tag = "Popped"

(***************************************************************************)
(* Properties of build_fn_header and serialize_with_relocs                 *)
(***************************************************************************)
Serialized == phase = "built" /\ phase' = "serialized"

\* what the insertions k.. with the given `at` contribute, in their order
RECURSIVE InsertedAt(_, _, _)
InsertedAt(ib, at, k) ==
    IF k > Len(insertions) THEN << >>
    ELSE (IF insertions[k].at = at
          THEN SubSeq(ib, insertions[k].start + 1, insertions[k].end)
          ELSE << >>) \o InsertedAt(ib, at, k + 1)

\* the bytes c from index i on, each preceded by what is inserted before it
RECURSIVE Splice(_, _, _)
Splice(c, ib, i) ==
    InsertedAt(ib, i, 1)
        \o (IF i < Len(c) THEN <<c[i + 1]>> \o Splice(c, ib, i + 1) ELSE << >>)

\* for each byte of the spliced code, the index in code it comes from, and
\* -1 for an inserted byte
Provenance ==
    Splice([j \in 1..Len(code) |-> j - 1], [j \in 1..Len(insert_bytes) |-> -1], 0)

\* the bytes of the insertions k.. placed at or before code offset off
RECURSIVE InsertedUpTo(_, _)
InsertedUpTo(off, k) ==
    IF k > Len(insertions) THEN 0
    ELSE (IF insertions[k].at <= off
          THEN insertions[k].end - insertions[k].start ELSE 0)
         + InsertedUpTo(off, k + 1)

\* C6: serialize_with_relocs appends inner_length, the preamble, and the code
\* with each insertion's bytes placed before the code byte at its `at`
\* (insertions with the same `at` in their sorted order, an insertion at the
\* end of code after all code).
C6_Splicing ==
    [][Serialized =>
        buffer' = buffer \o inner_length \o preamble
                         \o Splice(code, insert_bytes, 0)]_vars

\* two insertions were spliced, created in the opposite order of their places
C6_Witness ==
    /\ phase = "serialized"
    /\ Len(insertions) = 2
    /\ insertions[1].at < insertions[2].at
    /\ insertions[1].start > insertions[2].start
    /\ insertions[2].at < Len(code) - 1

\* C7: every relocation copied to final_relocs points, from
\* reloc_base_offset, at the place in the buffer that holds the code byte of
\* its original offset.
C7_RelocTarget ==
    [][Serialized =>
        /\ Len(final_relocs') <= Len(relocations)
        /\ LET from == Provenance
               body == Len(buffer) + Len(inner_length) + Len(preamble)
           IN \A k \in 1..Len(final_relocs') :
               LET pos == reloc_base_offset' + final_relocs'[k].offset
               IN /\ final_relocs'[k] =
                         [relocations[k] EXCEPT !.offset = final_relocs'[k].offset]
                  /\ pos >= body
                  /\ pos < Len(buffer')
                  /\ from[pos - body + 1] = relocations[k].offset
                  /\ buffer'[pos + 1] = code[relocations[k].offset + 1]]_vars

\* a relocation at the very offset of an insertion was rewritten, into a
\* buffer that held a byte, relative to the start of the buffer
C7_Witness ==
    /\ phase = "serialized"
    /\ reloc_base_offset = 0
    /\ buffer[1] = 255
    /\ Len(final_relocs) >= 1
    /\ \E k \in 1..Len(insertions) : insertions[k].at = relocations[1].offset

\* C8 as stated: the final offset is the original offset plus the bytes of
\* the preamble, of the preceding insertions and of the preceding functions.
C8_AsStated ==
    [][Serialized =>
        \A k \in 1..Len(final_relocs') :
            final_relocs'[k].offset =
                relocations[k].offset + Len(preamble)
                    + InsertedUpTo(relocations[k].offset, 1)
                    + (Len(buffer) - reloc_base_offset')]_vars

\* C8: the final offset of a relocation is its original offset plus the
\* bytes of inner_length, of the preamble, of the insertions placed at or
\* before the original offset, and of what the buffer held after
\* reloc_base_offset before the call.
C8_OffsetFormula ==
    [][Serialized =>
        \A k \in 1..Len(final_relocs') :
            final_relocs'[k].offset =
                relocations[k].offset + Len(inner_length) + Len(preamble)
                    + InsertedUpTo(relocations[k].offset, 1)
                    + (Len(buffer) - reloc_base_offset')]_vars

\* into an empty buffer, a relocation behind an insertion was rewritten
C8_Witness ==
    /\ phase = "serialized"
    /\ reloc_base_offset = 0
    /\ Len(buffer) = Len(inner_length) + Len(preamble) + Len(code) + Len(insert_bytes)
    /\ Len(insertions) = 1
    /\ Len(final_relocs) = 1
    /\ insertions[1].at < relocations[1].offset
    /\ final_relocs[1].offset =
           Len(inner_length) + Len(preamble)
               + (insertions[1].end - insertions[1].start) + relocations[1].offset

\* C9: inner_length encodes |preamble| + |code| + |insert_bytes|, which is the
\* number of bytes serialize_with_relocs writes after the inner_length bytes.
C9_InnerLength ==
    [][Serialized =>
        /\ decode_u32(inner_length)
               = Len(preamble) + Len(code) + Len(insert_bytes)
        /\ Len(buffer') - Len(buffer) - Len(inner_length)
               = decode_u32(inner_length)]_vars

\* a function with a stack frame, locals and an insertion was serialized
C9_Witness ==
    /\ phase = "serialized"
    /\ Len(preamble) > 5
    /\ Len(insert_bytes) = 3
    /\ decode_u32(inner_length) = Len(preamble) + Len(code) + 3
    /\ Len(buffer) = Len(inner_length) + decode_u32(inner_length)

\* C10: after build_fn_header the last byte of code is the end opcode, and
\* the insertions are in ascending order of `at`, those with the same `at` in
\* the order of their creation.
C10_EndAndSorted ==
    phase \in {"built", "serialized"} =>
        /\ code # << >>
        /\ code[Len(code)] = 11
        /\ \A i, j \in 1..Len(insertions) :
            i < j =>
                /\ insertions[i].at <= insertions[j].at
                /\ insertions[i].at = insertions[j].at =>
                       insertions[i].start < insertions[j].start

\* the header was built over two insertions created in descending order of
\* `at`
C10_Witness ==
    /\ phase = "built"
    /\ Len(insertions) = 2
    /\ insertions[1].at < insertions[2].at
    /\ insertions[1].start > insertions[2].start

\* two insertions with the same `at` went through build_fn_header
SameAtReached ==
    /\ phase = "built"
    /\ Len(insertions) = 2
    /\ insertions[1].at = insertions[2].at

(***************************************************************************)
(* The operand stack of the Wasm validator (the validation algorithm of    *)
(* the Wasm specification, counting operands and leaving their types out)  *)
(***************************************************************************)
\* the instruction bytes as they will be serialized: code with the
\* insertions in place
Stream == Splice(code, insert_bytes, 0)

\* a control frame: the operands above its base, and whether the rest of the
\* block is unreachable, where the operand stack is polymorphic
ValFrame(opcode, has_result) ==
    [opcode |-> opcode, has_result |-> has_result, depth |-> 0,
     unreachable |-> FALSE]

\* the frame of the function body, which the builder opens with a result
ValInit == [ok |-> TRUE, frames |-> <<ValFrame(BLOCK, TRUE)>>]

Invalid(v) == [v EXCEPT !.ok = FALSE]

Arity(has_result) == IF has_result THEN 1 ELSE 0

ValPop(v, n) ==
    LET top == Len(v.frames)
        f == v.frames[top]
    IN IF f.depth >= n THEN [v EXCEPT !.frames[top].depth = @ - n]
       ELSE IF f.unreachable THEN [v EXCEPT !.frames[top].depth = 0]
       ELSE Invalid(v)

ValPush(v, n) == [v EXCEPT !.frames[Len(v.frames)].depth = @ + n]

\* the rest of the block cannot be reached
ValUnreachable(v) ==
    [v EXCEPT !.frames[Len(v.frames)].depth = 0,
              !.frames[Len(v.frames)].unreachable = TRUE]

ValOpen(v, opcode, block_type) ==
    [v EXCEPT !.frames = Append(@, ValFrame(opcode, block_type # NoResult))]

\* the operands a branch to the frame carries
LabelArity(f) == IF f.opcode = LOOP THEN 0 ELSE Arity(f.has_result)

\* the results are on the stack and nothing else is
ValClose(v) ==
    LET popped == ValPop(v, Arity(Last(v.frames).has_result))
    IN IF popped.ok /\ Last(popped.frames).depth = 0 THEN popped
       ELSE Invalid(v)

ValElse(v) ==
    LET closed == ValClose(v)
        top == Len(v.frames)
    IN IF top > 1 /\ v.frames[top].opcode = IF_OP /\ closed.ok
       THEN [closed EXCEPT !.frames[top] =
                ValFrame(ELSE_OP, v.frames[top].has_result)]
       ELSE Invalid(v)

ValEnd(v) ==
    LET closed == ValClose(v)
        top == Len(v.frames)
        f == v.frames[top]
    IN IF top > 1 /\ closed.ok /\ ~(f.opcode = IF_OP /\ f.has_result)
       THEN ValPush([closed EXCEPT !.frames = SubSeq(@, 1, top - 1)],
                    Arity(f.has_result))
       ELSE Invalid(v)

ValBr(v, levels) ==
    IF levels < Len(v.frames)
    THEN LET popped == ValPop(v, LabelArity(v.frames[Len(v.frames) - levels]))
         IN IF popped.ok THEN ValUnreachable(popped) ELSE popped
    ELSE Invalid(v)

ValBrIf(v, levels) ==
    IF levels < Len(v.frames)
    THEN LET n == LabelArity(v.frames[Len(v.frames) - levels])
             cond == ValPop(v, 1)
             popped == IF cond.ok THEN ValPop(cond, n) ELSE cond
         IN IF popped.ok THEN ValPush(popped, n) ELSE popped
    ELSE Invalid(v)

ValReturn(v) ==
    LET popped == ValPop(v, Arity(v.frames[1].has_result))
    IN IF popped.ok THEN ValUnreachable(popped) ELSE popped

\* pops, then pushes
ValOp(v, pops, pushes) ==
    LET popped == ValPop(v, pops)
    IN IF popped.ok THEN ValPush(popped, pushes) ELSE popped

\* the number of bytes of the LEB128 number at bytes[i], 0 if it is cut off
RECURSIVE LebLen(_, _)
LebLen(bytes, i) ==
    IF i > Len(bytes) THEN 0
    ELSE IF bytes[i] < 128 THEN 1
    ELSE LET rest == LebLen(bytes, i + 1)
         IN IF rest = 0 THEN 0 ELSE rest + 1

\* the validator's stack after the instructions bytes[i..]
RECURSIVE Validate(_, _, _)
Validate(bytes, i, v) ==
    IF ~v.ok \/ i > Len(bytes) THEN v
    ELSE LET op == bytes[i]
             imm == LebLen(bytes, i + 1)
             number == decode_u32(SubSeq(bytes, i + 1, i + imm))
         IN CASE op \in {BLOCK, LOOP, IF_OP} ->
                    IF i + 1 > Len(bytes) THEN Invalid(v)
                    ELSE LET popped == IF op = IF_OP THEN ValPop(v, 1) ELSE v
                         IN Validate(bytes, i + 2,
                                IF popped.ok THEN ValOpen(popped, op, bytes[i + 1])
                                ELSE popped)
              [] op \in {I32CONST, GETLOCAL, SETLOCAL, TEELOCAL, GETGLOBAL,
                         SETGLOBAL, BR, BRIF} ->
                    IF imm = 0 THEN Invalid(v)
                    ELSE Validate(bytes, i + 1 + imm,
                            CASE op \in {I32CONST, GETLOCAL, GETGLOBAL} ->
                                     ValOp(v, 0, 1)
                              [] op \in {SETLOCAL, SETGLOBAL} -> ValOp(v, 1, 0)
                              [] op = TEELOCAL -> ValOp(v, 1, 1)
                              [] op = BR -> ValBr(v, number)
                              [] op = BRIF -> ValBrIf(v, number))
              [] op = ELSE_OP -> Validate(bytes, i + 1, ValElse(v))
              [] op = END -> Validate(bytes, i + 1, ValEnd(v))
              [] op = UNREACHABLE -> Validate(bytes, i + 1, ValUnreachable(v))
              [] op = RETURN -> Validate(bytes, i + 1, ValReturn(v))
              [] op = DROP -> Validate(bytes, i + 1, ValOp(v, 1, 0))
              [] op = I32EQZ -> Validate(bytes, i + 1, ValOp(v, 1, 1))
              [] op \in {I32ADD, I32SUB} -> Validate(bytes, i + 1, ValOp(v, 2, 1))
              [] OTHER -> Invalid(v)

\* the validator at the end of what was emitted so far
Validated == Validate(Stream, 1, ValInit)

Underflows ==
    \/ Drop(MaxBuildLen) /\ Len(CurrentStack) < 1
    \/ If(MaxBuildLen) /\ Len(CurrentStack) < 1
    \/ I32Add(MaxBuildLen) /\ Len(CurrentStack) < 2

\* C12: an instruction that pops more than the current block's value_stack
\* holds aborts the emitter, whatever the enclosing blocks hold; it never
\* completes.
C12_UnderflowFatal == [][Underflows => aborted']_vars

\* with overflow checks, an underflow in a block aborts although the
\* enclosing block holds a value
UnderflowAbortsWithChecks ==
    [][(Underflows /\ overflow_checks) => aborted']_vars

\* else_ or end is called with no block of its kind open
Unmatched ==
    \/ /\ Else(MaxBuildLen)
       /\ (Len(vm_block_stack) = 1 \/ Last(vm_block_stack).opcode # IF_OP)
    \/ End(MaxBuildLen) /\ Len(vm_block_stack) = 1

\* C13: else_ when the current block is the function's or was not opened by
\* `if`, and end when the current block is the function's, abort the emitter.
C13_UnmatchedFatal == [][Unmatched => aborted']_vars

\* end in the function's own block aborts
EndAtRootAborts ==
    [][(End(MaxBuildLen) /\ Len(vm_block_stack) = 1) => aborted']_vars

\* C14: end removes the innermost block; a block with a result hands exactly
\* its top entry, tag included, to the enclosing block, where it becomes the
\* top; a block without a result hands on nothing; the other entries of the
\* ended block are gone and every other block is as before. So
\* `block i32; i32.const 7; end`, the constant left untagged, leaves one
\* WASM_TMP on the outer stack, and a drop after it leaves none.
C14_BlockResult ==
    [][(End(MaxCodeLen) /\ ~aborted') =>
        LET n == Len(vm_block_stack)
            ended_block == vm_block_stack[n]
            parent == vm_block_stack[n - 1].value_stack
        IN /\ code' = Append(code, END)
           /\ Len(vm_block_stack') = n - 1
           /\ \A b \in 1..(n - 2) : vm_block_stack'[b] = vm_block_stack[b]
           /\ vm_block_stack'[n - 1].opcode = vm_block_stack[n - 1].opcode
           /\ vm_block_stack'[n - 1].has_result = vm_block_stack[n - 1].has_result
           /\ vm_block_stack'[n - 1].value_stack =
                  IF ended_block.has_result
                  THEN Append(parent,
                              ended_block.value_stack[Len(ended_block.value_stack)])
                  ELSE parent
           /\ (/\ code' = <<BLOCK, I32, I32CONST, 7, END>>
               /\ \A sym \in Symbols : sym_state[sym] = NotYetPushed)
                  => vm_block_stack'[1].value_stack = <<WASM_TMP>>]_vars
    /\ [][(Drop(MaxCodeLen) /\ code = <<BLOCK, I32, I32CONST, 7, END>>) =>
            /\ ~aborted'
            /\ vm_block_stack'[1].value_stack = << >>]_vars

\* a block with a result ended over two entries, the upper one tagged: the
\* tag alone is on the outer stack
C14_Witness ==
    /\ phase = "building" /\ ~aborted
    /\ Len(code) = 7
    /\ code[1] = BLOCK /\ code[2] = I32 /\ code[7] = END
    /\ Len(vm_block_stack) = 1
    /\ \E sym \in Symbols :
        /\ CurrentStack = <<sym>>
        /\ sym_state[sym] = Pushed(6)

\* C15: call pops n_args entries, pushes one WASM_TMP iff has_return_val,
\* appends the call opcode and exactly 5 bytes that encode the function
\* index, and records one FunctionIndexLeb relocation at the first of those
\* bytes.
C15_Call ==
    [][\A callee \in Callees :
        (CallFn(callee, MaxCallLen) /\ ~aborted') =>
            LET index == SubSeq(code', Len(code) + 2, Len(code'))
                kept == SubSeq(CurrentStack, 1, Len(CurrentStack) - callee[3])
            IN /\ Len(code') = Len(code) + 6
               /\ SubSeq(code', 1, Len(code) + 1) = Append(code, CALL)
               /\ \A k \in 1..4 : index[k] >= 128
               /\ index[5] < 128
               /\ decode_u32(index) = callee[1]
               /\ relocations' =
                      Append(relocations,
                             [type_id |-> "FunctionIndexLeb",
                              offset |-> Len(code) + 1,
                              symbol_index |-> callee[2]])
               /\ vm_block_stack' =
                      [vm_block_stack EXCEPT ![Len(vm_block_stack)].value_stack =
                          IF callee[4] THEN Append(kept, WASM_TMP) ELSE kept]
               /\ UNCHANGED <<insert_bytes, insertions, preamble, inner_length>>]_vars

\* the function with index 2^31 - 1 took an argument from a stack of two,
\* after another call
C15_Witness ==
    /\ phase = "building" /\ ~aborted
    /\ Len(relocations) = 2
    /\ relocations[2].offset = Len(code) - 5
    /\ SubSeq(code, Len(code) - 5, Len(code)) = <<CALL, 255, 255, 255, 255, 7>>
    /\ Len(CurrentStack) = 1

\* C16: set_top_symbol replaces the top entry of the current block's
\* value_stack with the symbol and returns Pushed with the length of code;
\* the depth, the other entries, the other blocks, code, insertions and
\* relocations are as before.
C16_SetTopSymbol ==
    [][\A sym \in Symbols :
        (SetTopSymbol(sym) /\ ~aborted') =>
            LET top == Len(vm_block_stack)
                depth == Len(CurrentStack)
            IN /\ sym_state'[sym] = Pushed(Len(code))
               /\ \A other \in Symbols \ {sym} : sym_state'[other] = sym_state[other]
               /\ Len(vm_block_stack') = top
               /\ \A b \in 1..(top - 1) : vm_block_stack'[b] = vm_block_stack[b]
               /\ vm_block_stack'[top].opcode = vm_block_stack[top].opcode
               /\ vm_block_stack'[top].has_result = vm_block_stack[top].has_result
               /\ Len(vm_block_stack'[top].value_stack) = depth
               /\ vm_block_stack'[top].value_stack[depth] = sym
               /\ \A k \in 1..(depth - 1) :
                      vm_block_stack'[top].value_stack[k] = CurrentStack[k]
               /\ UNCHANGED <<code, insert_bytes, insertions, relocations,
                              preamble, inner_length>>]_vars

\* inside a block, the upper of two values was tagged after six bytes of code
C16_Witness ==
    /\ phase = "building" /\ ~aborted
    /\ Len(vm_block_stack) = 2
    /\ Len(code) = 6
    /\ \E sym \in Symbols :
        /\ CurrentStack = <<WASM_TMP, sym>>
        /\ sym_state[sym] = Pushed(6)

(***************************************************************************)
(* Properties of the function header                                       *)
(***************************************************************************)
\* the k batches (count, value_type) written from bytes[i] on, and the index
\* behind them
RECURSIVE ParseBatches(_, _, _)
ParseBatches(bytes, i, k) ==
    IF k = 0 THEN [batches |-> << >>, next |-> i]
    ELSE IF k = 1
    THEN LET n == LebLen(bytes, i)
         IN [batches |-> <<[count |-> decode_u32(SubSeq(bytes, i, i + n - 1)),
                            type |-> bytes[i + n]]>>,
             next |-> i + n + 1]
    ELSE LET first == ParseBatches(bytes, i, k \div 2)
         IN IF first.next > Len(bytes) THEN first
            ELSE LET rest == ParseBatches(bytes, first.next, k - (k \div 2))
                 IN [batches |-> first.batches \o rest.batches, next |-> rest.next]

\* the locals that batches[lo..hi] declare
RECURSIVE Expand(_, _, _)
Expand(batches, lo, hi) ==
    IF lo > hi THEN << >>
    ELSE IF lo = hi THEN [i \in 1..batches[lo].count |-> batches[lo].type]
    ELSE LET mid == (lo + hi) \div 2
         IN Expand(batches, lo, mid) \o Expand(batches, mid + 1, hi)

\* C19: the preamble holds the number of batches and then the batches
\* (count, value_type) of a run-length encoding of local_types: expanded they
\* give local_types, every count is at least 1, adjacent batches differ in
\* type; no locals give the single byte 0, and [i32, i32, i64] gives
\* 02 02 7f 01 7e. The number of batches takes one byte below 128 and five
\* padded bytes from 128 on, with the batches after it as they were written.
C19_LocalDeclarations ==
    [][\A local_types \in LocalTypeLists :
        BuildLocalDeclarations(local_types) =>
            LET n == LebLen(preamble', 1)
                num_batches == decode_u32(SubSeq(preamble', 1, n))
                parsed == ParseBatches(preamble', n + 1, num_batches)
                batches == parsed.batches
            IN /\ Len(batches) = num_batches
               /\ parsed.next = Len(preamble') + 1
               /\ Expand(batches, 1, Len(batches)) = local_types
               /\ \A k \in 1..Len(batches) : batches[k].count >= 1
               /\ \A k \in 1..(Len(batches) - 1) :
                      batches[k].type # batches[k + 1].type
               /\ n = IF num_batches < 128 THEN 1 ELSE 5
               /\ local_types = << >> => preamble' = <<0>>
               /\ local_types = <<I32, I32, I64>>
                      => preamble' = <<2, 2, 127, 1, 126>>]_vars

\* 129 batches of one local each were declared behind a count of five bytes
C19_Witness ==
    /\ phase = "declared"
    /\ Len(preamble) = 5 + 2 * 129
    /\ SubSeq(preamble, 1, 7) = <<129, 129, 128, 128, 0, 1, 127>>
    /\ SubSeq(preamble, Len(preamble) - 1, Len(preamble)) = <<1, 127>>

\* one batch of 130 locals, its count in two bytes
LongBatchReached ==
    /\ phase = "declared"
    /\ preamble = <<1, 130, 1, 126>>

(***************************************************************************)
(* Properties of verify_stack_match and of serializing twice               *)
(***************************************************************************)
\* C17: verify_stack_match answers true exactly when the last |symbols|
\* entries of the current block's value_stack are the symbols in order:
\* false when there are more symbols than entries, true for no symbols,
\* whatever the enclosing blocks hold; and it changes nothing.
C17_VerifyStackMatch ==
    [][\A symbols \in SymbolLists :
        VerifyStackMatch(symbols) =>
            LET depth == Len(CurrentStack)
                n == Len(symbols)
            IN /\ observed'.result =
                      (/\ n <= depth
                       /\ SubSeq(CurrentStack, depth - n + 1, depth) = symbols)
               /\ n > depth => ~observed'.result
               /\ n = 0 => observed'.result
               /\ UNCHANGED <<builder_vars, sym_state, phase, aborted>>]_vars

\* inside an empty block the answer for a symbol was no, although the symbol
\* is on top of the enclosing block
C17_Witness ==
    /\ phase = "building" /\ ~aborted
    /\ Len(vm_block_stack) = 2
    /\ CurrentStack = << >>
    /\ vm_block_stack[1].value_stack = <<WASM_TMP, 1>>
    /\ observed = [symbols |-> <<1>>, result |-> FALSE]

\* the answer for two symbols was yes on a stack of three entries
MatchReached ==
    /\ phase = "building" /\ ~aborted
    /\ Len(CurrentStack) = 3
    /\ observed = [symbols |-> <<1, WASM_TMP>>, result |-> TRUE]

FramePush(frame_pointer, aligned_size) ==
    <<GETGLOBAL, STACK_POINTER_GLOBAL_ID, I32CONST>> \o encode_i32(aligned_size)
        \o <<I32SUB, TEELOCAL>> \o encode_u32(frame_pointer)
        \o <<SETGLOBAL, STACK_POINTER_GLOBAL_ID>>

\* the bytes of the frame pop
FramePop(frame_pointer, aligned_size) ==
    <<GETLOCAL>> \o encode_u32(frame_pointer)
        \o <<I32CONST>> \o encode_i32(aligned_size)
        \o <<I32ADD, SETGLOBAL, STACK_POINTER_GLOBAL_ID>>

\* the preamble up to index n is the local declarations
DeclarationsEnd(bytes, n) ==
    LET count == LebLen(bytes, 1)
        num_batches == decode_u32(SubSeq(bytes, 1, count))
    IN ParseBatches(SubSeq(bytes, 1, n), count + 1, num_batches).next = n + 1

\* C20: with a frame pointer, build_fn_header writes the frame push to the
\* preamble behind the local declarations and appends the frame pop to code
\* as the last instructions before the terminating end, both with the same
\* size, a multiple of the frame alignment that holds frame_size; the
\* value stacks are as before. Without a frame pointer the preamble holds
\* only the local declarations and code gains only the end byte.
C20_StackFrame ==
    [][\A args \in HeaderArgs :
        BuildFnHeader(args[1], args[2], args[3]) =>
            /\ vm_block_stack' = vm_block_stack
            /\ IF args[3].tag = "Some"
               THEN \E aligned_size \in args[2]..(args[2] + FRAME_ALIGNMENT_BYTES - 1) :
                      LET push == FramePush(args[3].v, aligned_size)
                          pop == FramePop(args[3].v, aligned_size)
                          n == Len(preamble') - Len(push)
                      IN /\ aligned_size % FRAME_ALIGNMENT_BYTES = 0
                         /\ n >= 1
                         /\ SubSeq(preamble', n + 1, Len(preamble')) = push
                         /\ DeclarationsEnd(preamble', n)
                         /\ code' = code \o pop \o <<END>>
               ELSE /\ DeclarationsEnd(preamble', Len(preamble'))
                    /\ code' = Append(code, END)]_vars

\* the header of a function with a frame of 32 bytes was built over a value
\* on the stack
C20_Witness ==
    /\ phase = "built"
    /\ Len(preamble) = 14
    /\ SubSeq(preamble, 6, 14) = FramePush(0, 32)
    /\ Len(code) >= 10
    /\ SubSeq(code, Len(code) - 7, Len(code)) = FramePop(0, 32) \o <<END>>
    /\ Len(CurrentStack) >= 1

(***************************************************************************)
(* Properties of the relocations and of the recorded offsets               *)
(***************************************************************************)
\* a call of serialize_with_relocs that returned
SerializedAny == phase = "building" /\ phase' = "serialized"

\* relocation k as serialize_with_relocs rewrites it
Rewritten(k) ==
    [relocations[k] EXCEPT
        !.offset = @ + Len(inner_length) + Len(preamble)
                     + InsertedUpTo(relocations[k].offset, 1)
                     + (Len(buffer) - reloc_base_offset')]

\* C21: serialize_with_relocs pushes into final_relocs one rewritten copy of
\* every recorded relocation, in the order of recording, none skipped and
\* none twice: also the relocations whose offset is the end of code.
C21_EveryRelocation ==
    [][(Serialized \/ SerializedAny) =>
        final_relocs' = final_relocs \o [k \in 1..Len(relocations) |-> Rewritten(k)]]_vars

\* after build_fn_header every relocation lies before the end of code, and
\* serialize_with_relocs copies every one, in order
EveryRelocationOfBuilt ==
    [][Serialized =>
        /\ \A k \in 1..Len(relocations) : relocations[k].offset < Len(code)
        /\ final_relocs' = final_relocs \o [k \in 1..Len(relocations) |-> Rewritten(k)]]_vars

\* a relocation recorded at the end of code was left out
RelocationSkipped ==
    /\ phase = "serialized"
    /\ ~aborted
    /\ Len(relocations) = 1
    /\ relocations[1].offset = Len(code)
    /\ final_relocs = << >>

\* s is the beginning of t
IsPrefix(s, t) == Len(s) <= Len(t) /\ SubSeq(t, 1, Len(s)) = s

\* C22: no instruction method, set_top_symbol, load_symbol,
\* insert_memory_relocation or build_fn_header that returns changes what was
\* recorded: code and insert_bytes only grow at their end, the recorded
\* relocations keep their offsets, the recorded insertions keep their at,
\* start and end (build_fn_header only reorders them), and
\* serialize_with_relocs leaves the builder as it is.
C22_OffsetsStable ==
    [][~aborted' =>
        /\ IsPrefix(code, code')
        /\ IsPrefix(insert_bytes, insert_bytes')
        /\ IsPrefix(relocations, relocations')
        /\ IF phase = "building" /\ phase' = "built"
           THEN /\ Len(insertions') = Len(insertions)
                /\ \A k \in 1..Len(insertions) :
                       \E j \in 1..Len(insertions') : insertions'[j] = insertions[k]
           ELSE IsPrefix(insertions, insertions')
        /\ phase' = "serialized" => UNCHANGED builder_vars]_vars

\* an insertion was recorded before the code that follows its place, next to
\* a relocation, and the function went through build_fn_header and
\* serialize_with_relocs
C22_Witness ==
    /\ phase = "serialized"
    /\ Len(insertions) = 1
    /\ insertions[1].at < Len(code) - 1
    /\ Len(insert_bytes) >= 2
    /\ Len(relocations) = 1
    /\ relocations[1].offset > insertions[1].at

(***************************************************************************)
(* Properties of the blocks                                                *)
(***************************************************************************)
\* the opcode of the instruction method the step called, -1 when the step
\* appended nothing to code
EmittedOpcode ==
    IF Len(code') > Len(code) THEN code'[Len(code) + 1] ELSE -1

\* C23: vm_block_stack holds the root block alone after new(), and after
\* every operation that returns it holds at least one block: one more after
\* block, loop and if, one fewer after end, as many as before after anything
\* else.
C23_BlockStack ==
    /\ Len(vm_block_stack) = 1
    /\ vm_block_stack[1].opcode = BLOCK
    /\ [][~aborted' =>
            /\ Len(vm_block_stack') >= 1
            /\ Len(vm_block_stack') - Len(vm_block_stack) =
                   (IF EmittedOpcode \in {BLOCK, LOOP, IF_OP} THEN 1
                    ELSE IF EmittedOpcode = END THEN -1 ELSE 0)]_vars

\* a loop inside a block was ended
C23_Witness ==
    /\ ~aborted
    /\ code = <<BLOCK, NoResult, LOOP, NoResult, END>>
    /\ Len(vm_block_stack) = 2

\* an end of the root block aborted
RootEndReached ==
    /\ aborted
    /\ vm_block_stack = << >>

(***************************************************************************)
(* Invariants of the builder                                               *)
(***************************************************************************)
\* C24: with a driver that hands load_symbol the states it got from
\* set_top_symbol and load_symbol, every insertion lies within code and
\* names bytes of insert_bytes: at <= code.len() and
\* start <= end <= insert_bytes.len().
C24_InsertionsInRange ==
    \A k \in 1..Len(insertions) :
        /\ insertions[k].at <= Len(code)
        /\ insertions[k].start <= insertions[k].end
        /\ insertions[k].end <= Len(insert_bytes)

\* two symbols were promoted to locals, the second where the code of the
\* first promotion ended
C24_Witness ==
    /\ phase = "building"
    /\ Len(insertions) = 2
    /\ insertions[1].at < insertions[2].at
    /\ insertions[2].at < Len(code)
    /\ insertions[2].start = insertions[1].end
    /\ insertions[2].end = Len(insert_bytes)

\* C25: every recorded relocation has offset <= code.len(); the relocation
\* of a call lies before the end of code once call has returned, and
\* insert_memory_relocation records the very length code has at that moment.
C25_RelocationsInRange ==
    /\ [](\A k \in 1..Len(relocations) :
            /\ relocations[k].offset <= Len(code)
            /\ relocations[k].type_id = "FunctionIndexLeb"
                   => relocations[k].offset < Len(code))
    /\ [][(~aborted' /\ Len(relocations') = Len(relocations) + 1) =>
            LET reloc == relocations'[Len(relocations')]
            IN IF reloc.type_id = "MemoryAddrLeb"
               THEN reloc.offset = Len(code) /\ code' = code
               ELSE reloc.offset = Len(code) + 1 /\ reloc.offset < Len(code')]_vars

\* a call recorded a relocation, and insert_memory_relocation another at the
\* end of the code of the call
C25_Witness ==
    /\ phase = "building"
    /\ ~aborted
    /\ Len(relocations) = 2
    /\ relocations[1].type_id = "FunctionIndexLeb"
    /\ relocations[1].offset = 1
    /\ relocations[2].type_id = "MemoryAddrLeb"
    /\ relocations[2].offset = Len(code)
    /\ Len(code) = 6

\* C26: with a driver that tags each symbol at most once and keeps the state
\* it got, a symbol whose state is Pushed is in at most one place of all the
\* value_stacks: in one place, or in none once it was dropped with its
\* block or popped; also after end has handed a tagged result to the parent
\* block.
C26_PushedOnce ==
    \A sym \in Symbols :
        sym_state[sym].tag = "Pushed" => Cardinality(Occurrences(sym)) <= 1

\* end handed the tagged result of a block to the root block, where it is
\* the only occurrence of the symbol
C26_Witness ==
    /\ phase = "building"
    /\ Len(vm_block_stack) = 1
    /\ Len(code) >= 5
    /\ code[1] = BLOCK
    /\ code[2] = I32
    /\ code[Len(code)] = END
    /\ sym_state[1].tag = "Pushed"
    /\ sym_state[1].pushed_at = Len(code) - 1
    /\ Occurrences(1) = {<<1, 1>>}

\* a symbol whose state is Pushed is in no value_stack: else emptied the
\* stack of its block
PushedNowhereReached ==
    /\ phase = "building"
    /\ ~aborted
    /\ code # << >>
    /\ code[Len(code)] = ELSE_OP
    /\ sym_state[1].tag = "Pushed"
    /\ Occurrences(1) = {}

\* C27: else_ leaves the current block with an empty value_stack and appends
\* the else opcode alone; the number of blocks, the opcode and has_result of
\* the current block and the parent blocks stay as they are.
C27_Else ==
    [][(phase' = "building" /\ ~aborted' /\ EmittedOpcode = ELSE_OP) =>
        LET n == Len(vm_block_stack)
        IN /\ code' = Append(code, ELSE_OP)
           /\ Len(vm_block_stack') = n
           /\ vm_block_stack'[n].value_stack = << >>
           /\ vm_block_stack'[n].opcode = vm_block_stack[n].opcode
           /\ vm_block_stack'[n].has_result = vm_block_stack[n].has_result
           /\ \A b \in 1..(n - 1) : vm_block_stack'[b] = vm_block_stack[b]
           /\ UNCHANGED <<insert_bytes, insertions, relocations, preamble,
                          inner_length>>]_vars

\* else_ emptied the stack of an if block whose then branch had left a value
C27_Witness ==
    /\ ~aborted
    /\ code = <<I32CONST, 7, IF_OP, NoResult, I32CONST, 7, ELSE_OP>>
    /\ Len(vm_block_stack) = 2
    /\ vm_block_stack[2].opcode = IF_OP
    /\ vm_block_stack[2].value_stack = << >>

\* else_ left the value of the parent block where it was
ElseBelowValueReached ==
    /\ ~aborted
    /\ code = <<I32CONST, 7, I32CONST, 7, IF_OP, I32, ELSE_OP>>
    /\ vm_block_stack[1].value_stack = <<1>>
    /\ vm_block_stack[2].has_result

(***************************************************************************)
(* Properties of the declared pops and pushes                              *)
(***************************************************************************)
\* opcodes after which execution does not go on with the next instruction:
\* unreachable, br, br_table, return
NoFallThrough == {0, 12, 14, 15}

\* opcodes that take one operand and give one: the tests for zero, the unary
\* integer and float operators, the conversions, the loads and memory.grow
OneToOne ==
    {69, 80} \cup (103..105) \cup (121..123) \cup (139..145) \cup (153..159)
        \cup (167..191) \cup (40..53) \cup {64}

\* opcodes that take two operands and give one: comparisons and binary
\* operators
TwoToOne ==
    (70..79) \cup (81..90) \cup (91..102) \cup (106..120) \cup (124..138)
        \cup (146..152) \cup (160..166)

\* what the instruction with this opcode adds to the operand stack of the
\* block it is in when execution goes on behind it (Wasm 1.0, validation of
\* instructions); an if takes its condition before its block begins
WasmNet(opcode) ==
    CASE opcode \in {1, 2, 3, 34} -> 0
      [] opcode \in {4, 13, 26, 33, 36} -> -1
      [] opcode = 27 -> -2
      [] opcode \in {32, 35, 63, 65, 66, 67, 68} -> 1
      [] opcode \in 54..62 -> -2
      [] opcode \in OneToOne -> 0
      [] opcode \in TwoToOne -> -1

\* the pushes less the pops a method declares
DeclaredNet(m) == (IF m[4] THEN 1 ELSE 0) - m[3]

\* a call of an instruction method returned
MethodReturned == phase' = "building" /\ ~aborted' /\ Called' = Called + 1

\* C28: for every instruction method after which execution goes on, the
\* pushes less the pops it declares, and with them the change of the depth of
\* the simulated stack of the block the instruction is in, are the change of
\* the operand stack the Wasm specification gives for its opcode.
C28_NetChange ==
    [][MethodReturned =>
        LET m == observed'.method
            opcode == opcode_byte[m[2]]
            n == Len(vm_block_stack)
        IN /\ code'[Len(code) + 1] = opcode
           /\ Len(vm_block_stack'[n].value_stack)
                  - Len(vm_block_stack[n].value_stack) = DeclaredNet(m)
           /\ opcode \notin NoFallThrough => DeclaredNet(m) = WasmNet(opcode)]_vars

\* select took three values of four and gave one
C28_Witness ==
    /\ ~aborted
    /\ Called = 1
    /\ observed.method[1] = "select"
    /\ code = <<I32CONST, 7, I32CONST, 7, I32CONST, 7, I32CONST, 7, 27>>
    /\ vm_block_stack[1].value_stack = <<WASM_TMP, WASM_TMP>>

\* br_if took the condition alone
BrIfReached ==
    /\ ~aborted
    /\ Called = 1
    /\ observed.method[1] = "br_if"
    /\ code = <<I32CONST, 7, I32CONST, 7, BRIF, 1>>
    /\ vm_block_stack[1].value_stack = <<WASM_TMP>>

\* C29: the relocations are in the order of their offsets: a relocation
\* recorded before another has an offset that is not greater.
C29_RelocationsOrdered ==
    \A i, j \in 1..Len(relocations) :
        i < j => relocations[i].offset <= relocations[j].offset

\* a call was recorded after a memory address, and the function serialized
C29_Witness ==
    /\ phase = "serialized"
    /\ Len(relocations) = 2
    /\ relocations[1].type_id = "MemoryAddrLeb"
    /\ relocations[2].type_id = "FunctionIndexLeb"
    /\ relocations[1].offset < relocations[2].offset
    /\ Len(final_relocs) = 2
====
